---------------------------- MODULE Spec2Model ----------------------------
(***************************************************************************)
(* Authentication / authorization core of the hospital-management backend. *)
(*                                                                         *)
(* The record store is modelled as four collections (hospitals, admins,    *)
(* verifications, users), each a function from document _id to document.   *)
(* Time is counted in minutes.  Every route handler is one action; its     *)
(* HTTP answer is left in the variable "last" together with the request.   *)
(***************************************************************************)
EXTENDS Integers, Sequences, FiniteSets, TLC

VARIABLES
    now,            \* the clock (Date.now()), in minutes
    ticks,          \* number of clock steps taken so far
    oid,            \* number of ObjectIds handed out per collection
    hospitals,      \* Hospital collection:          _id -> document
    admins,         \* Admin collection:             _id -> document
    verifications,  \* EmailVerification collection: _id -> document
    users,          \* User (staff) collection:      _id -> document
    sessions,       \* bearer tokens the clients hold (latest per principal)
    redeemed,       \* history: the successful redemptions, per verification _id
    inflight,       \* the requests a handler has read the store for and not yet answered
    last            \* the last request and its answer

vars == <<now, ticks, oid, hospitals, admins, verifications, users, sessions, redeemed,
          inflight, last>>

---------------------------------------------------------------------------
(* Program constants (minutes where they are durations).                   *)

Null == -1                  \* JS null / undefined for ids, dates and counts
MaxLoginAttempts == 5       \* parseInt(process.env.MAX_LOGIN_ATTEMPTS) || 5
LockDuration == 120         \* process.env.LOCK_TIME || '2h'
VerificationExpiry == 10    \* Date.now() + 10 * 60 * 1000
VerificationMaxAttempts == 5 \* maxAttempts: 5
VerificationTTL == 1440     \* expireAfterSeconds: 86400
JwtExpiry == 10080          \* process.env.JWT_EXPIRES_IN || '7d'
JWT_SECRET == "JWT_SECRET"

(* Bounds of the model.                                                    *)
MaxTicks == 3               \* clock steps per behaviour
MaxRegistrations == 2       \* registrations that reach the save stage
MaxStaff == 1               \* staff accounts ever created
MaxPermissions == 2         \* entries in a permission set
MaxRoster == 3              \* staff accounts ever created across two tenants
MaxCounter == 6             \* cap on loginAttempts / attempts counters

---------------------------------------------------------------------------
(* Credential Vault: bcrypt.  A digest is not its plaintext.               *)

bcryptHash(plain) == <<"bcrypt", plain>>
bcryptCompare(plain, digest) == digest = bcryptHash(plain)

---------------------------------------------------------------------------
(* Session Issuer: jsonwebtoken.                                           *)

NoToken ==
    [adminId |-> Null, userId |-> Null, hospitalId |-> Null, email |-> "",
     role |-> "", exp |-> Null, sig |-> "none"]

\* mutant: expiresIn taken as 0
jwtSign_expired(payload, secret) ==
    [adminId |-> payload.adminId, userId |-> payload.userId,
     hospitalId |-> payload.hospitalId, email |-> payload.email,
     role |-> payload.role, exp |-> now, sig |-> secret]

\* jwt.sign(payload, secret, { expiresIn: '7d' })
jwtSign(payload, secret) ==
    [adminId |-> payload.adminId, userId |-> payload.userId,
     hospitalId |-> payload.hospitalId, email |-> payload.email,
     role |-> payload.role, exp |-> now + JwtExpiry, sig |-> secret]

\* jwt.verify: "ok", or the name of the error it throws
jwtVerify(token, secret) ==
    IF token.sig # secret THEN "JsonWebTokenError"
    ELSE IF now >= token.exp THEN "TokenExpiredError"
    ELSE "ok"

---------------------------------------------------------------------------
(* Store helpers.                                                          *)

findById(coll, id) == IF id \in DOMAIN coll THEN {id} ELSE {}
Put(coll, id, doc) == [x \in (DOMAIN coll) \cup {id} |-> IF x = id THEN doc ELSE coll[x]]
\* (variant: the delete is a no-op)
Delete_kept(coll, id) == coll
Delete(coll, id) == [x \in (DOMAIN coll) \ {id} |-> coll[x]]
Empty == [x \in {} |-> Null]

\* What protect attaches to the request (req.admin, req.hospital, req.user,
\* req.staffUser): each absent ({}) or one value.
NoReq == [admin |-> {}, hospital |-> {}, user |-> {}, staffUser |-> {}]

\* The answer of a request.  "pre" is the document the handler loaded
\* (before it changed it) or, for the staff and registration routes, the
\* collections as they were when the handler started on them; "arg" is the
\* request's credential, code or body, "id" the record it addressed.
Resp(op, kind, email, arg, id, pre, token) ==
    [op |-> op, kind |-> kind, email |-> email, arg |-> arg, id |-> id,
     pre |-> pre, token |-> token, req |-> NoReq]

\* The client keeps the token it was given (replacing an older one of the
\* same principal).
Keep(token) ==
    {t \in sessions : ~(t.adminId = token.adminId /\ t.userId = token.userId)} \cup {token}

---------------------------------------------------------------------------
(* Lockout Policy Engine.                                                  *)

\* (variant: the lock is never seen)
isLocked_never(adm) == FALSE

\* mutant: the comparison with the clock turned round
isLocked_flipped(adm) == adm.lockUntil # Null /\ adm.lockUntil < now

\* adminSchema.methods.isLocked
isLocked(adm) == adm.lockUntil # Null /\ adm.lockUntil > now

\* (variant: a lock that has run out restarts the count)
RecordFailedLogin_restart(adm) ==
    LET n == IF adm.lockUntil # Null /\ adm.lockUntil <= now THEN 1 ELSE adm.loginAttempts + 1 IN
    [adm EXCEPT !.loginAttempts = n,
                !.lockUntil = IF n >= MaxLoginAttempts THEN now + LockDuration ELSE @]

\* routes/adminRoutes.js: a failed password match
RecordFailedLogin(adm) ==
    LET n == adm.loginAttempts + 1 IN
    [adm EXCEPT !.loginAttempts = n,
                !.lockUntil = IF n >= MaxLoginAttempts THEN now + LockDuration ELSE @]

\* mutant: the lock is left in place
ResetLoginAttempts_keepLock(adm, clientIP) ==
    [adm EXCEPT !.loginAttempts = 0, !.lastLoginAt = now, !.lastLoginIP = clientIP]

\* routes/adminRoutes.js: a successful login
ResetLoginAttempts(adm, clientIP) ==
    [adm EXCEPT !.loginAttempts = 0, !.lockUntil = Null,
                !.lastLoginAt = now, !.lastLoginIP = clientIP]

AdminToken(a, adm, h) ==
    jwtSign([adminId |-> a, userId |-> Null, hospitalId |-> h,
             email |-> adm.email, role |-> adm.role], JWT_SECRET)

\* req.body.password and req.ip of a login request
LoginArg(password, clientIP) == [password |-> password, ip |-> clientIP]

\* (variant: activation and verification are looked at before the password)
AdminLogin_flagsFirst(email, password, clientIP) ==
    LET found == {a \in DOMAIN admins : admins[a].email = email} IN
    /\ UNCHANGED <<now, ticks, oid, hospitals, verifications, users, redeemed, inflight>>
    /\ IF found = {}
       THEN /\ last' = Resp("adminLogin", "InvalidCredentials", email, LoginArg(password, clientIP), Null, Null, NoToken)
            /\ UNCHANGED <<admins, sessions>>
       ELSE \E a \in found :
            LET adm == admins[a]
                h == adm.hospitalId
                R(kind) == Resp("adminLogin", kind, email, LoginArg(password, clientIP), a, adm, NoToken)
            IN
            IF isLocked(adm)
            THEN /\ last' = R("AccountLocked")
                 /\ UNCHANGED <<admins, sessions>>
            ELSE IF ~adm.isActive
            THEN /\ last' = R("AccountInactive")
                 /\ UNCHANGED <<admins, sessions>>
            ELSE IF ~adm.isEmailVerified
            THEN /\ last' = R("EmailNotVerified")
                 /\ UNCHANGED <<admins, sessions>>
            ELSE IF ~bcryptCompare(password, adm.password)
            THEN /\ adm.loginAttempts < MaxCounter
                 /\ admins' = [admins EXCEPT ![a] = RecordFailedLogin(adm)]
                 /\ last' = R("InvalidCredentials")
                 /\ UNCHANGED sessions
            ELSE IF h \notin DOMAIN hospitals \/ hospitals[h].status # "active"
            THEN /\ last' = R("TenantInactive")
                 /\ UNCHANGED <<admins, sessions>>
            ELSE LET token == AdminToken(a, adm, h) IN
                 /\ admins' = [admins EXCEPT ![a] = ResetLoginAttempts(adm, clientIP)]
                 /\ last' = Resp("adminLogin", "Success", email, LoginArg(password, clientIP), a, adm, token)
                 /\ sessions' = Keep(token)

\* POST /api/admin/login
AdminLogin(email, password, clientIP) ==
    LET found == {a \in DOMAIN admins : admins[a].email = email} IN
    /\ UNCHANGED <<now, ticks, oid, hospitals, verifications, users, redeemed, inflight>>
    /\ IF found = {}
       THEN /\ last' = Resp("adminLogin", "InvalidCredentials", email, LoginArg(password, clientIP), Null, Null, NoToken)
            /\ UNCHANGED <<admins, sessions>>
       ELSE \E a \in found :
            LET adm == admins[a]
                h == adm.hospitalId
                R(kind) == Resp("adminLogin", kind, email, LoginArg(password, clientIP), a, adm, NoToken)
            IN
            IF isLocked(adm)
            THEN /\ last' = R("AccountLocked")
                 /\ UNCHANGED <<admins, sessions>>
            ELSE IF ~bcryptCompare(password, adm.password)
            THEN /\ adm.loginAttempts < MaxCounter
                 /\ admins' = [admins EXCEPT ![a] = RecordFailedLogin(adm)]
                 /\ last' = R("InvalidCredentials")
                 /\ UNCHANGED sessions
            ELSE IF ~adm.isActive
            THEN /\ last' = R("AccountInactive")
                 /\ UNCHANGED <<admins, sessions>>
            ELSE IF ~adm.isEmailVerified
            THEN /\ last' = R("EmailNotVerified")
                 /\ UNCHANGED <<admins, sessions>>
            ELSE IF h \notin DOMAIN hospitals \/ hospitals[h].status # "active"
            THEN /\ last' = R("TenantInactive")
                 /\ UNCHANGED <<admins, sessions>>
            ELSE LET token == AdminToken(a, adm, h) IN
                 /\ admins' = [admins EXCEPT ![a] = ResetLoginAttempts(adm, clientIP)]
                 /\ last' = Resp("adminLogin", "Success", email, LoginArg(password, clientIP), a, adm, token)
                 /\ sessions' = Keep(token)


---------------------------------------------------------------------------
(* Tenant registration.                                                    *)

\* String(n): the decimal digits of n, most significant first
RECURSIVE DecimalDigits(_)
DecimalDigits(n) == IF n < 10 THEN <<n>> ELSE Append(DecimalDigits(n \div 10), n % 10)

\* String.prototype.padStart(len, '0') on a digit string
RECURSIVE padStart(_, _)
padStart(digits, len) == IF Len(digits) >= len THEN digits ELSE padStart(<<0>> \o digits, len)

\* `HOSP${String(hospitalCount + 1).padStart(4, '0')}`
GenerateHospitalId(hospitalCount) == <<"HOSP">> \o padStart(DecimalDigits(hospitalCount + 1), 4)

\* (variant: hospitalNumber is left out of the lookup)
ExistingHospital_noHospitalNumber(hd) ==
    {h \in DOMAIN hospitals :
        \/ hospitals[h].email = hd.email
        \/ hospitals[h].registrationNumber = hd.registrationNumber
        \/ hospitals[h].licenseNumber = hd.licenseNumber}

\* Hospital.findOne({ $or: [email, registrationNumber, licenseNumber, hospitalNumber] })
ExistingHospital(hd) ==
    {h \in DOMAIN hospitals :
        \/ hospitals[h].email = hd.email
        \/ hospitals[h].registrationNumber = hd.registrationNumber
        \/ hospitals[h].licenseNumber = hd.licenseNumber
        \/ hospitals[h].hospitalNumber = hd.hospitalNumber}

\* the unique indexes of the Hospital schema, as hospital.save() enforces them
HospitalUniqueOk(doc) ==
    \A h \in DOMAIN hospitals :
        /\ hospitals[h].hospitalId # doc.hospitalId
        /\ hospitals[h].email # doc.email
        /\ hospitals[h].registrationNumber # doc.registrationNumber
        /\ hospitals[h].licenseNumber # doc.licenseNumber
        /\ hospitals[h].hospitalNumber # doc.hospitalNumber

\* the unique index of the Admin schema (email)
AdminUniqueOk(doc) == \A a \in DOMAIN admins : admins[a].email # doc.email

NewHospital(h, hd, hospitalId) ==
    [_id |-> h, hospitalId |-> hospitalId, email |-> hd.email,
     registrationNumber |-> hd.registrationNumber, licenseNumber |-> hd.licenseNumber,
     hospitalNumber |-> hd.hospitalNumber,
     isVerified |-> FALSE, status |-> "pending", verifiedAt |-> Null]

NewAdmin(a, ad, h) ==
    [_id |-> a, hospitalId |-> h, email |-> ad.email, password |-> bcryptHash(ad.password),
     role |-> "admin", permissions |-> {},
     isActive |-> FALSE, isEmailVerified |-> FALSE, emailVerifiedAt |-> Null,
     lastLoginAt |-> Null, lastLoginIP |-> "", loginAttempts |-> 0, lockUntil |-> Null]

NewEmailVerification(v, ad, code, h, a) ==
    [_id |-> v, email |-> ad.email, token |-> code, type |-> "hospital_registration",
     expiresAt |-> now + VerificationExpiry, isUsed |-> FALSE, usedAt |-> Null,
     attempts |-> 0, maxAttempts |-> VerificationMaxAttempts,
     isBlocked |-> FALSE, blockedAt |-> Null, createdAt |-> now,
     metadata |-> [hospitalId |-> h, adminId |-> a]]

\* emailVerificationSchema.pre('save')
preSaveVerification(v) ==
    IF v.attempts >= v.maxAttempts /\ ~v.isBlocked
    THEN [v EXCEPT !.isBlocked = TRUE, !.blockedAt = now]
    ELSE v

\* POST /api/hospital/register-with-verification
\* code is the value generateVerificationToken() draws, emailOk whether
\* sendVerificationEmail resolves.
Register(hd, ad, code, emailOk) ==
    LET R(kind, id) == Resp("register", kind, ad.email,
                            [hospitalData |-> hd, adminData |-> ad, code |-> code], id,
                            [hospitals |-> hospitals, admins |-> admins,
                             verifications |-> verifications], NoToken)
    IN
    /\ UNCHANGED <<now, ticks, users, sessions, redeemed, inflight>>
    /\ IF ExistingHospital(hd) # {} \/ {a \in DOMAIN admins : admins[a].email = ad.email} # {}
       THEN /\ last' = R("Conflict", Null)
            /\ UNCHANGED <<oid, hospitals, admins, verifications>>
       ELSE LET h == oid.hospital + 1
                a == oid.admin + 1
                v == oid.verification + 1
                hospital == NewHospital(h, hd, GenerateHospitalId(Cardinality(DOMAIN hospitals)))
                admin == NewAdmin(a, ad, h)
                emailVerification == preSaveVerification(NewEmailVerification(v, ad, code, h, a))
            IN
            /\ oid.hospital < MaxRegistrations
            /\ oid' = [oid EXCEPT !.hospital = h, !.admin = a, !.verification = v]
            /\ IF ~HospitalUniqueOk(hospital)
               THEN \* hospital.save() throws: nothing is written
                    /\ last' = R("Unexpected", Null)
                    /\ UNCHANGED <<hospitals, admins, verifications>>
               ELSE IF ~AdminUniqueOk(admin)
               THEN \* admin.save() throws: the hospital stays
                    /\ hospitals' = Put(hospitals, h, hospital)
                    /\ last' = R("Unexpected", Null)
                    /\ UNCHANGED <<admins, verifications>>
               ELSE IF emailOk
               THEN /\ hospitals' = Put(hospitals, h, hospital)
                    /\ admins' = Put(admins, a, admin)
                    /\ verifications' = Put(verifications, v, emailVerification)
                    /\ last' = R("VerificationRequired", v)
               ELSE \* saved, then deleted again by the catch block
                    /\ hospitals' = Delete(Put(hospitals, h, hospital), h)
                    /\ admins' = Delete(Put(admins, a, admin), a)
                    /\ verifications' = Delete(Put(verifications, v, emailVerification), v)
                    /\ last' = R("EmailDispatchFailed", Null)

---------------------------------------------------------------------------
(* Verification Ledger.                                                    *)

\* phase (a): EmailVerification.findOne({email, token, type, isUsed: false, expiresAt > now})
FindRedeemable(email, token) ==
    {v \in DOMAIN verifications :
        /\ verifications[v].email = email
        /\ verifications[v].token = token
        /\ verifications[v].type = "hospital_registration"
        /\ ~verifications[v].isUsed
        /\ verifications[v].expiresAt > now}

\* phase (b): EmailVerification.findOne({email, type})
FindAnyVerification(email) ==
    {v \in DOMAIN verifications :
        /\ verifications[v].email = email
        /\ verifications[v].type = "hospital_registration"}

\* (variant: the block flag is set only when the budget is met exactly, and
\* the record is written without running the save hook)
CountFailedAttempt_exact(ver) ==
    LET n == ver.attempts + 1 IN
    [ver EXCEPT !.attempts = n, !.isBlocked = (n = ver.maxAttempts)]

\* a failed redemption counted against the record
CountFailedAttempt(ver) ==
    LET n == ver.attempts + 1 IN
    preSaveVerification([ver EXCEPT !.attempts = n,
                                    !.isBlocked = IF n >= ver.maxAttempts THEN TRUE ELSE @])

\* "Verify and activate"
\* (variant: the tenant is marked verified but its status is left alone)
ActivateHospital_pending(hosp) == [hosp EXCEPT !.isVerified = TRUE, !.verifiedAt = now]
ActivateHospital(hosp) == [hosp EXCEPT !.isVerified = TRUE, !.status = "active", !.verifiedAt = now]
\* (variant: the administrator is switched on but not marked verified)
ActivateAdmin_unverified(adm) == [adm EXCEPT !.isActive = TRUE, !.emailVerifiedAt = now]

ActivateAdmin(adm) == [adm EXCEPT !.isActive = TRUE, !.isEmailVerified = TRUE, !.emailVerifiedAt = now]
\* (variant: usedAt is stamped but isUsed is left as it was)
MarkUsed_unmarked(ver) == preSaveVerification([ver EXCEPT !.usedAt = now])

\* (variant: the redemption is counted as an attempt)
MarkUsed_counted(ver) ==
    preSaveVerification([ver EXCEPT !.isUsed = TRUE, !.usedAt = now, !.attempts = @ + 1])

MarkUsed(ver) == preSaveVerification([ver EXCEPT !.isUsed = TRUE, !.usedAt = now])

\* (variant: one attempt too many is let through)
AttemptsExhausted_offByOne(ver) == ver.attempts > ver.maxAttempts

\* "Check attempts": verification.attempts >= verification.maxAttempts
AttemptsExhausted(ver) == ver.attempts >= ver.maxAttempts

\* history of the redemptions that succeeded (kept outside the database)
Redeem(v, email, token) ==
    IF v \in DOMAIN redeemed
    THEN [redeemed EXCEPT ![v].count = @ + 1]
    ELSE Put(redeemed, v, [email |-> email, token |-> token, count |-> 1])

\* POST /api/hospital/verify-email
\* writes is the number of the three saves (hospital, admin, verification)
\* that resolve before one rejects; 3 when none does.
VerifyEmailWrites(email, token, writes) ==
    LET R(kind, v) == Resp("verifyEmail", kind, email, token, v,
                           IF v = Null THEN Null ELSE verifications[v], NoToken)
    IN
    /\ UNCHANGED <<now, ticks, oid, users>>
    /\ IF FindRedeemable(email, token) = {}
       THEN /\ UNCHANGED <<hospitals, admins, sessions, redeemed, inflight>>
            /\ IF FindAnyVerification(email) = {}
               THEN /\ last' = R("InvalidToken", Null)
                    /\ UNCHANGED verifications
               ELSE \E v \in FindAnyVerification(email) :
                    LET ver == verifications[v] IN
                    IF ver.isUsed
                    THEN /\ last' = R("AlreadyUsed", v)
                         /\ UNCHANGED verifications
                    ELSE IF ver.expiresAt <= now
                    THEN /\ last' = R("Expired", v)
                         /\ UNCHANGED verifications
                    ELSE /\ ver.attempts < MaxCounter
                         /\ verifications' = [verifications EXCEPT ![v] = CountFailedAttempt(ver)]
                         /\ last' = R("InvalidToken", v)
       ELSE \E v \in FindRedeemable(email, token) :
            LET ver == verifications[v]
                h == ver.metadata.hospitalId
                a == ver.metadata.adminId
            IN
            IF AttemptsExhausted(ver)
            THEN /\ verifications' = [verifications EXCEPT
                                         ![v] = preSaveVerification([ver EXCEPT !.isBlocked = TRUE])]
                 /\ last' = R("TooManyAttempts", v)
                 /\ UNCHANGED <<hospitals, admins, sessions, redeemed, inflight>>
            ELSE IF findById(hospitals, h) = {} \/ findById(admins, a) = {}
            THEN /\ last' = R("NotFound", v)
                 /\ UNCHANGED <<hospitals, admins, verifications, sessions, redeemed, inflight>>
            ELSE LET jwtToken == AdminToken(a, admins[a], h) IN
                 /\ hospitals' = IF writes >= 1 THEN [hospitals EXCEPT ![h] = ActivateHospital(@)]
                                  ELSE hospitals
                 /\ admins' = IF writes >= 2 THEN [admins EXCEPT ![a] = ActivateAdmin(@)]
                               ELSE admins
                 /\ verifications' = IF writes >= 3 THEN [verifications EXCEPT ![v] = MarkUsed(ver)]
                                      ELSE verifications
                 /\ IF writes >= 3
                    THEN /\ sessions' = Keep(jwtToken)
                         /\ redeemed' = Redeem(v, email, token)
                         /\ UNCHANGED inflight
                         /\ last' = Resp("verifyEmail", "Success", email, token, v, ver, jwtToken)
                    ELSE \* a save rejected: the catch block answers 500
                         /\ last' = R("Unexpected", v)
                         /\ UNCHANGED <<sessions, redeemed, inflight>>

VerifyEmail(email, token) == VerifyEmailWrites(email, token, 3)

\* EmailVerification.findOne({email, type, isUsed: false}).sort({createdAt: -1})
FindLatestPending(email) ==
    LET pending == {v \in DOMAIN verifications :
                       /\ verifications[v].email = email
                       /\ verifications[v].type = "hospital_registration"
                       /\ ~verifications[v].isUsed}
    IN {v \in pending : \A w \in pending : verifications[w].createdAt <= verifications[v].createdAt}

\* (variant: the code is replaced but the old expiry is kept)
Reissue_keepsExpiry(ver, newToken) ==
    preSaveVerification([ver EXCEPT !.token = newToken, !.attempts = 0, !.isBlocked = FALSE])

Reissue(ver, newToken) ==
    preSaveVerification([ver EXCEPT !.token = newToken, !.expiresAt = now + VerificationExpiry,
                                    !.attempts = 0, !.isBlocked = FALSE])

\* POST /api/hospital/resend-verification
\* newToken is the value generateVerificationToken() draws, emailOk whether
\* sendVerificationEmail resolves.
ResendVerification(email, newToken, emailOk) ==
    LET R(kind, v) == Resp("resendVerification", kind, email, newToken, v,
                           IF v = Null THEN Null ELSE verifications[v], NoToken)
    IN
    /\ UNCHANGED <<now, ticks, oid, hospitals, admins, users, sessions, redeemed, inflight>>
    /\ IF FindLatestPending(email) = {}
       THEN /\ last' = R("NotFound", Null)
            /\ UNCHANGED verifications
       ELSE \E v \in FindLatestPending(email) :
            LET ver == verifications[v]
                a == ver.metadata.adminId
                h == ver.metadata.hospitalId
            IN
            IF findById(admins, a) # {} /\ admins[a].isEmailVerified
            THEN /\ last' = R("AlreadyVerified", v)
                 /\ UNCHANGED verifications
            ELSE /\ verifications' = [verifications EXCEPT ![v] = Reissue(ver, newToken)]
                 /\ IF findById(admins, a) = {} \/ findById(hospitals, h) = {} \/ ~emailOk
                    THEN \* admin.name / hospital.name of null, or the mailer, throws
                         last' = R("Unexpected", v)
                    ELSE last' = R("Resent", v)

---------------------------------------------------------------------------
(* The clock, and the TTL index of the verification collection.            *)

Deadlines ==
    {admins[a].lockUntil : a \in DOMAIN admins}
    \cup {verifications[v].expiresAt : v \in DOMAIN verifications}
    \cup {verifications[v].createdAt + VerificationTTL : v \in DOMAIN verifications}
    \cup {t.exp : t \in sessions}

\* Time passes, up to an instant at which some comparison with the clock
\* changes its answer (between two such instants every handler answers the
\* same).
TickTo(deadlines) ==
    /\ ticks < MaxTicks
    /\ \E t \in {d \in deadlines : d > now} :
          /\ now' = t
          /\ last' = Resp("tick", "", "", Null, Null, Null, NoToken)
    /\ ticks' = ticks + 1
    /\ UNCHANGED <<oid, hospitals, admins, verifications, users, sessions, redeemed, inflight>>

Tick == TickTo(Deadlines)

\* the instants at which a session token expires
SessionDeadlines == {t.exp : t \in sessions}

\* emailVerificationSchema.index({ createdAt: 1 }, { expireAfterSeconds: 86400 })
ExpireVerification(v) ==
    /\ v \in DOMAIN verifications
    /\ verifications[v].createdAt + VerificationTTL <= now
    /\ verifications' = Delete(verifications, v)
    /\ last' = Resp("ttl", "", "", Null, v, verifications[v], NoToken)
    /\ UNCHANGED <<now, ticks, oid, hospitals, admins, users, sessions, redeemed, inflight>>

---------------------------------------------------------------------------
(* middleware/auth.js: protect.                                            *)

\* .populate('hospitalId'): the hospital document, or null
populateHospital(h) == IF h \in DOMAIN hospitals THEN {hospitals[h]} ELSE {}

\* .select('-password ...')
selectWithoutPassword(doc) == [doc EXCEPT !.password = <<>>]

\* req.user as protect sets it for an administrator
AdminReqUser(adm) ==
    [id |-> adm._id, role |-> "admin", hospitalId |-> adm.hospitalId, type |-> "admin",
     employeeId |-> <<>>, permissions |-> {}]

\* req.user as protect sets it for a staff member
StaffReqUser(user) ==
    [id |-> user._id, role |-> user.role, hospitalId |-> user.hospitalId, type |-> "user",
     employeeId |-> user.employeeId, permissions |-> {user.permissions}]

\* what protect answers when it refuses, and when it calls next()
Reject(kind) == [kind |-> kind, req |-> NoReq]
Attach(req) == [kind |-> "Next", req |-> req]

\* (variant: the administrator's tenant is not looked at)
protectAdmin_noTenantCheck(decoded) ==
    IF findById(admins, decoded.adminId) = {} THEN Reject("NotAuthorized")
    ELSE LET admin == selectWithoutPassword(admins[decoded.adminId])
             hospital == populateHospital(admin.hospitalId)
         IN
         IF ~admin.isActive THEN Reject("AccountInactive")
         ELSE IF ~admin.isEmailVerified THEN Reject("EmailNotVerified")
         ELSE Attach([admin |-> {admin}, hospital |-> hospital,
                      user |-> {AdminReqUser(admin)}, staffUser |-> {}])

\* protect, "if (decoded.adminId)": admin authentication
protectAdmin(decoded) ==
    IF findById(admins, decoded.adminId) = {} THEN Reject("NotAuthorized")
    ELSE LET admin == selectWithoutPassword(admins[decoded.adminId])
             hospital == populateHospital(admin.hospitalId)
         IN
         IF ~admin.isActive THEN Reject("AccountInactive")
         ELSE IF ~admin.isEmailVerified THEN Reject("EmailNotVerified")
         ELSE IF hospital = {} \/ \E hosp \in hospital : hosp.status # "active"
         THEN Reject("TenantInactive")
         ELSE Attach([admin |-> {admin}, hospital |-> hospital,
                      user |-> {AdminReqUser(admin)}, staffUser |-> {}])

\* (variant: the stored isActive flag of the staff member is not looked at)
protectUser_noActiveCheck(decoded) ==
    IF findById(users, decoded.userId) = {} THEN Reject("NotAuthorized")
    ELSE LET user == selectWithoutPassword(users[decoded.userId])
             hospital == populateHospital(user.hospitalId)
         IN
         IF hospital = {} \/ \E hosp \in hospital : hosp.status # "active"
         THEN Reject("TenantInactive")
         ELSE Attach([admin |-> {}, hospital |-> hospital,
                      user |-> {StaffReqUser(user)}, staffUser |-> {user}])

\* protect, "else if (decoded.userId)": user authentication
protectUser(decoded) ==
    IF findById(users, decoded.userId) = {} THEN Reject("NotAuthorized")
    ELSE LET user == selectWithoutPassword(users[decoded.userId])
             hospital == populateHospital(user.hospitalId)
         IN
         IF ~user.isActive THEN Reject("AccountInactive")
         ELSE IF hospital = {} \/ \E hosp \in hospital : hosp.status # "active"
         THEN Reject("TenantInactive")
         ELSE Attach([admin |-> {}, hospital |-> hospital,
                      user |-> {StaffReqUser(user)}, staffUser |-> {user}])

\* What protect does with the bearer token of a request: the failure it
\* answers, or "Next" and what it attached to the request.
protect(token) ==
    IF token = NoToken THEN Reject("NotAuthorized")
    ELSE IF jwtVerify(token, JWT_SECRET) = "JsonWebTokenError" THEN Reject("InvalidToken")
    ELSE IF jwtVerify(token, JWT_SECRET) = "TokenExpiredError" THEN Reject("TokenExpired")
    ELSE IF token.adminId # Null THEN protectAdmin(token)
    ELSE IF token.userId # Null THEN protectUser(token)
    ELSE Reject("InvalidToken")

\* A request through protect alone (GET /api/admin/profile and the like)
Protect(token) ==
    /\ last' = [Resp("protect", protect(token).kind, token.email, Null, Null, Null, token)
                   EXCEPT !.req = protect(token).req]
    /\ UNCHANGED <<now, ticks, oid, hospitals, admins, verifications, users, sessions, redeemed, inflight>>

\* The bearer tokens a client can send: none, one it was given, or one it
\* was given with the signature replaced.
IssuedTokens == {NoToken} \cup sessions
BearerTokens == IssuedTokens \cup {[t EXCEPT !.sig = "forged"] : t \in sessions}

---------------------------------------------------------------------------
(* Administrative tooling outside the routes: it writes the tenant's       *)
(* status and the administrator's activation flags straight to the store.  *)

HospitalStatuses == {"pending", "active", "suspended", "inactive"}

SetHospitalStatus(h, status) ==
    /\ h \in DOMAIN hospitals
    /\ hospitals[h].status # status
    /\ hospitals' = [hospitals EXCEPT ![h].status = status]
    /\ last' = Resp("setHospitalStatus", status, "", Null, h, hospitals[h], NoToken)
    /\ UNCHANGED <<now, ticks, oid, admins, verifications, users, sessions, redeemed, inflight>>

SetAdminFlags(a, isActive, isEmailVerified) ==
    /\ a \in DOMAIN admins
    /\ <<admins[a].isActive, admins[a].isEmailVerified>> # <<isActive, isEmailVerified>>
    /\ admins' = [admins EXCEPT ![a].isActive = isActive, ![a].isEmailVerified = isEmailVerified]
    /\ last' = Resp("setAdminFlags", "", admins[a].email, Null, a, admins[a], NoToken)
    /\ UNCHANGED <<now, ticks, oid, hospitals, verifications, users, sessions, redeemed, inflight>>

---------------------------------------------------------------------------
(* middleware/auth.js: checkPermission.                                    *)

\* (variant: 'manage' is an action like any other)
HasPermission_noManage(permissions, module, action) ==
    \E permission \in permissions :
        permission.module = module /\ action \in permission.actions

\* permissions.some(p => p.module === module &&
\*                       (p.actions.includes(action) || p.actions.includes('manage')))
HasPermission(permissions, module, action) ==
    \E permission \in permissions :
        /\ permission.module = module
        /\ (action \in permission.actions \/ "manage" \in permission.actions)

\* checkPermission(module, action) applied to a request
checkPermission(module, action, req) ==
    IF req.user = {} THEN "NotAuthenticated"
    ELSE IF \E user \in req.user : user.type = "admin" THEN "Next"
    ELSE IF \E admin \in req.admin : admin.role = "super_admin" THEN "Next"
    ELSE IF \E admin \in req.admin : HasPermission(admin.permissions, module, action) THEN "Next"
    ELSE IF \E user \in req.user : \E permissions \in user.permissions :
                HasPermission(permissions, module, action)
    THEN "Next"
    ELSE "Forbidden"

\* A request to a route guarded by protect, checkPermission(module, action)
CheckPermission(token, module, action) ==
    LET p == protect(token)
        kind == IF p.kind # "Next" THEN p.kind ELSE checkPermission(module, action, p.req)
    IN
    /\ last' = [Resp("checkPermission", kind, token.email, [module |-> module, action |-> action],
                     Null, Null, token) EXCEPT !.req = p.req]
    /\ UNCHANGED <<now, ticks, oid, hospitals, admins, verifications, users, sessions, redeemed, inflight>>

---------------------------------------------------------------------------
(* middleware/auth.js: optionalAuth.                                       *)

\* "if (decoded.adminId)": the administrator is attached when stored,
\* active and email-verified.  With the tenant document missing, req.admin
\* and req.hospital are assigned before admin.hospitalId._id throws.
optionalAuthAdmin(decoded) ==
    IF findById(admins, decoded.adminId) = {} THEN NoReq
    ELSE LET admin == selectWithoutPassword(admins[decoded.adminId])
             hospital == populateHospital(admin.hospitalId)
         IN
         IF ~(admin.isActive /\ admin.isEmailVerified) THEN NoReq
         ELSE IF hospital = {} THEN [NoReq EXCEPT !.admin = {admin}]
         ELSE [admin |-> {admin}, hospital |-> hospital,
               user |-> {AdminReqUser(admin)}, staffUser |-> {}]

\* "else if (decoded.userId)": the staff member is attached when stored and
\* active.  With the tenant document missing, user.hospitalId._id throws
\* before anything is assigned.
optionalAuthUser(decoded) ==
    IF findById(users, decoded.userId) = {} THEN NoReq
    ELSE LET user == selectWithoutPassword(users[decoded.userId])
             hospital == populateHospital(user.hospitalId)
         IN
         IF ~user.isActive \/ hospital = {} THEN NoReq
         ELSE [admin |-> {}, hospital |-> hospital,
               user |-> {StaffReqUser(user)}, staffUser |-> {user}]

\* what optionalAuth attaches for the bearer token of a request; it always
\* calls next()
optionalAuth(token) ==
    IF token = NoToken THEN NoReq
    ELSE IF jwtVerify(token, JWT_SECRET) # "ok" THEN NoReq
    ELSE IF token.adminId # Null THEN optionalAuthAdmin(token)
    ELSE IF token.userId # Null THEN optionalAuthUser(token)
    ELSE NoReq

\* A request to a route guarded by optionalAuth
OptionalAuth(token) ==
    /\ last' = [Resp("optionalAuth", "Next", token.email, Null, Null, Null, token)
                   EXCEPT !.req = optionalAuth(token)]
    /\ UNCHANGED <<now, ticks, oid, hospitals, admins, verifications, users, sessions, redeemed, inflight>>

---------------------------------------------------------------------------
(* middleware/auth.js: requirePermission.                                  *)

\* permissions.some(p => p.module === module && p.actions.includes(action))
IncludesAction(permissions, module, action) ==
    \E permission \in permissions :
        permission.module = module /\ action \in permission.actions

\* requirePermission(module, action) applied to a request
requirePermission(module, action, req) ==
    IF req.user = {} THEN "AuthenticationRequired"
    ELSE IF \E user \in req.user : user.role = "admin" \/ user.type = "admin" THEN "Next"
    ELSE IF \E user \in req.user : user.permissions = {} THEN "NoPermissionsDefined"
    ELSE IF \E user \in req.user : \E permissions \in user.permissions :
                IncludesAction(permissions, module, action)
    THEN "Next"
    ELSE "Forbidden"

\* A request to a route guarded by protect, requirePermission(module, action)
RequirePermission(token, module, action) ==
    LET p == protect(token)
        kind == IF p.kind # "Next" THEN p.kind ELSE requirePermission(module, action, p.req)
    IN
    /\ last' = [Resp("requirePermission", kind, token.email, [module |-> module, action |-> action],
                     Null, Null, token) EXCEPT !.req = p.req]
    /\ UNCHANGED <<now, ticks, oid, hospitals, admins, verifications, users, sessions, redeemed, inflight>>

---------------------------------------------------------------------------
(* Staff accounts: models/User.js, routes/user.js, routes/userAuth.js.     *)

rolePrefix(role) ==
    CASE role = "admin" -> "AD"
      [] role = "doctor" -> "DR"
      [] role = "nurse" -> "NU"
      [] role = "receptionist" -> "RC"
      [] role = "lab_technician" -> "LT"
      [] role = "pharmacist" -> "PH"
      [] role = "accountant" -> "AC"
      [] OTHER -> "US"

\* `${prefix}${String(userCount + 1).padStart(4, "0")}`
generateEmployeeId(hospitalId, role) ==
    LET userCount == Cardinality({u \in DOMAIN users : users[u].hospitalId = hospitalId})
    IN <<rolePrefix(role)>> \o padStart(DecimalDigits(userCount + 1), 4)

\* userSchema.pre('save'): the password is hashed when it was modified
preSaveUser(user, passwordModified) ==
    IF passwordModified THEN [user EXCEPT !.password = bcryptHash(@)] ELSE user

\* userSchema.methods.comparePassword
comparePassword(user, candidatePassword) == bcryptCompare(candidatePassword, user.password)

\* the unique indexes of the User schema (email; employeeId)
UserUniqueOk(doc) ==
    \A u \in DOMAIN users :
        /\ users[u].email # doc.email
        /\ users[u].employeeId # doc.employeeId

NewUser(u, body, temporaryPassword, hospitalId, employeeId, createdBy) ==
    [_id |-> u, email |-> body.email, password |-> temporaryPassword,
     hospitalId |-> hospitalId, role |-> body.role, employeeId |-> employeeId,
     isActive |-> TRUE, permissions |-> {}, lastLogin |-> Null, createdBy |-> createdBy]

\* (variant: the lookup is by id alone)
FindOwnedUser_anyTenant(id, hospitalId) == findById(users, id)

\* User.findOne({ _id: id, hospitalId: adminHospitalId })
FindOwnedUser(id, adminHospitalId) ==
    {u \in DOMAIN users : u = id /\ users[u].hospitalId = adminHospitalId}

\* POST /api/users
\* temporaryPassword is the value generateTemporaryPassword() draws, emailOk
\* whether sendUserInvitationEmail resolves.
\* At most cap staff documents are ever created.
CreateStaffWithin(cap, token, body, temporaryPassword, emailOk) ==
    LET p == protect(token)
        handled == p.kind = "Next" /\ p.req.admin # {}
        R(kind, id) == [Resp("createStaff", kind, body.email, body, id,
                             IF handled THEN users ELSE Null, token)
                          EXCEPT !.req = p.req]
    IN
    /\ UNCHANGED <<now, ticks, hospitals, admins, verifications, sessions, redeemed, inflight>>
    /\ IF p.kind # "Next"
       THEN /\ last' = R(p.kind, Null)
            /\ UNCHANGED <<oid, users>>
       ELSE IF p.req.admin = {}
       THEN /\ last' = R("AdminRequired", Null)
            /\ UNCHANGED <<oid, users>>
       ELSE \E admin \in p.req.admin, hospital \in p.req.hospital :
            IF \E u \in DOMAIN users : users[u].email = body.email
            THEN /\ last' = R("Conflict", Null)
                 /\ UNCHANGED <<oid, users>>
            ELSE LET u == oid.user + 1
                     employeeId == generateEmployeeId(hospital._id, body.role)
                     user == preSaveUser(NewUser(u, body, temporaryPassword, hospital._id,
                                                 employeeId, admin._id), TRUE)
                 IN
                 /\ oid.user < cap
                 /\ oid' = [oid EXCEPT !.user = u]
                 /\ IF ~UserUniqueOk(user)
                    THEN \* user.save() throws on the duplicate key
                         /\ last' = R("Unexpected", Null)
                         /\ UNCHANGED users
                    ELSE IF emailOk
                    THEN /\ users' = Put(users, u, user)
                         /\ last' = R("Created", u)
                    ELSE \* saved, then deleted again by the catch block
                         /\ users' = Delete(Put(users, u, user), u)
                         /\ last' = R("EmailDispatchFailed", Null)

CreateStaff(token, body, temporaryPassword, emailOk) ==
    CreateStaffWithin(MaxStaff, token, body, temporaryPassword, emailOk)

\* A JSON scalar of a request body: its JSON type and its text.
JsonBoolean(b) == [type |-> "boolean", text |-> IF b THEN "true" ELSE "false"]
JsonString(text) == [type |-> "string", text |-> text]

\* body("isActive").optional().isBoolean(): booleans, and the strings
\* 'true', 'false', '1', '0', pass; the value is left as it was sent
isBoolean(v) == v.text \in {"true", "false", "1", "0"}

\* updateData.isActive === false
StrictlyFalse(v) == v.type = "boolean" /\ v.text = "false"

\* the cast of the schema type Boolean, applied by findByIdAndUpdate
castBoolean(v) == v.text \in {"true", "1", "yes"}

\* A string written to the password field without hashing: the text itself
\* (a value no bcryptHash produces).
castString(text) == <<text>>

\* findByIdAndUpdate(id, updateData): the fields of the body overwrite the
\* stored ones, cast to the schema's types
ApplyUpdate(user, updateData) ==
    [f \in DOMAIN user |->
        IF f \notin DOMAIN updateData THEN user[f]
        ELSE IF f = "isActive" THEN castBoolean(updateData[f])
        ELSE IF f = "password" THEN castString(updateData[f])
        ELSE updateData[f]]

\* PUT /api/users/:id
UpdateStaff(token, id, updateData) ==
    LET p == protect(token)
        handled == p.kind = "Next" /\ p.req.admin # {}
        R(kind) == [Resp("updateStaff", kind, token.email, updateData,
                         IF handled THEN id ELSE Null,
                         IF handled THEN users ELSE Null, token)
                      EXCEPT !.req = p.req]
    IN
    /\ UNCHANGED <<now, ticks, oid, hospitals, admins, verifications, sessions, redeemed, inflight>>
    /\ IF p.kind # "Next"
       THEN /\ last' = R(p.kind)
            /\ UNCHANGED users
       ELSE IF p.req.admin = {}
       THEN /\ last' = R("AdminRequired")
            /\ UNCHANGED users
       ELSE IF "isActive" \in DOMAIN updateData /\ ~isBoolean(updateData.isActive)
       THEN /\ last' = R("ValidationFailed")
            /\ UNCHANGED users
       ELSE \E admin \in p.req.admin, hospital \in p.req.hospital :
            IF FindOwnedUser(id, hospital._id) = {}
            THEN /\ last' = R("NotFound")
                 /\ UNCHANGED users
            ELSE IF /\ "isActive" \in DOMAIN updateData
                    /\ StrictlyFalse(updateData.isActive)
                    /\ users[id].email = admin.email
            THEN /\ last' = R("CannotDeactivateSelf")
                 /\ UNCHANGED users
            ELSE /\ users' = [users EXCEPT ![id] = ApplyUpdate(@, updateData)]
                 /\ last' = R("Updated")

\* DELETE /api/users/:id
DeleteStaff(token, id) ==
    LET p == protect(token)
        handled == p.kind = "Next" /\ p.req.admin # {}
        R(kind) == [Resp("deleteStaff", kind, token.email, Null,
                         IF handled THEN id ELSE Null,
                         IF handled THEN users ELSE Null, token)
                      EXCEPT !.req = p.req]
    IN
    /\ UNCHANGED <<now, ticks, oid, hospitals, admins, verifications, sessions, redeemed, inflight>>
    /\ IF p.kind # "Next"
       THEN /\ last' = R(p.kind)
            /\ UNCHANGED users
       ELSE IF p.req.admin = {}
       THEN /\ last' = R("AdminRequired")
            /\ UNCHANGED users
       ELSE \E admin \in p.req.admin, hospital \in p.req.hospital :
            IF FindOwnedUser(id, hospital._id) = {}
            THEN /\ last' = R("NotFound")
                 /\ UNCHANGED users
            ELSE IF users[id].email = admin.email
            THEN /\ last' = R("CannotDeleteSelf")
                 /\ UNCHANGED users
            ELSE /\ users' = Delete(users, id)
                 /\ last' = R("Deleted")

\* (variant: the previous password is restored when the mail fails)
ResetStaffPassword_restoring(token, id, newPassword, emailOk) ==
    LET p == protect(token)
        handled == p.kind = "Next" /\ p.req.admin # {}
        R(kind) == [Resp("resetStaffPassword", kind, token.email, newPassword,
                         IF handled THEN id ELSE Null,
                         IF handled THEN users ELSE Null, token)
                      EXCEPT !.req = p.req]
    IN
    /\ UNCHANGED <<now, ticks, oid, hospitals, admins, verifications, sessions, redeemed, inflight>>
    /\ IF p.kind # "Next"
       THEN /\ last' = R(p.kind)
            /\ UNCHANGED users
       ELSE IF p.req.admin = {}
       THEN /\ last' = R("AdminRequired")
            /\ UNCHANGED users
       ELSE \E hospital \in p.req.hospital :
            IF FindOwnedUser(id, hospital._id) = {}
            THEN /\ last' = R("NotFound")
                 /\ UNCHANGED users
            ELSE IF emailOk
            THEN /\ users' = [users EXCEPT ![id] = preSaveUser([@ EXCEPT !.password = newPassword], TRUE)]
                 /\ last' = R("PasswordReset")
            ELSE /\ UNCHANGED users
                 /\ last' = R("EmailDispatchFailed")

\* POST /api/users/:id/reset-password
\* newPassword is the value generateTemporaryPassword() draws, emailOk
\* whether sendUserInvitationEmail resolves.
ResetStaffPassword(token, id, newPassword, emailOk) ==
    LET p == protect(token)
        handled == p.kind = "Next" /\ p.req.admin # {}
        R(kind) == [Resp("resetStaffPassword", kind, token.email, newPassword,
                         IF handled THEN id ELSE Null,
                         IF handled THEN users ELSE Null, token)
                      EXCEPT !.req = p.req]
    IN
    /\ UNCHANGED <<now, ticks, oid, hospitals, admins, verifications, sessions, redeemed, inflight>>
    /\ IF p.kind # "Next"
       THEN /\ last' = R(p.kind)
            /\ UNCHANGED users
       ELSE IF p.req.admin = {}
       THEN /\ last' = R("AdminRequired")
            /\ UNCHANGED users
       ELSE \E hospital \in p.req.hospital :
            IF FindOwnedUser(id, hospital._id) = {}
            THEN /\ last' = R("NotFound")
                 /\ UNCHANGED users
            ELSE \* the new password is saved before the mail is sent
                 /\ users' = [users EXCEPT ![id] = preSaveUser([@ EXCEPT !.password = newPassword], TRUE)]
                 /\ last' = R(IF emailOk THEN "PasswordReset" ELSE "EmailDispatchFailed")

StaffToken(u, user) ==
    jwtSign([adminId |-> Null, userId |-> u, hospitalId |-> user.hospitalId,
             email |-> user.email, role |-> user.role], JWT_SECRET)

\* POST /api/auth/login
StaffLogin(email, password) ==
    LET found == {u \in DOMAIN users : users[u].email = email} IN
    /\ UNCHANGED <<now, ticks, oid, hospitals, admins, verifications, redeemed, inflight>>
    /\ IF found = {}
       THEN /\ last' = Resp("staffLogin", "InvalidCredentials", email, password, Null, Null, NoToken)
            /\ UNCHANGED <<users, sessions>>
       ELSE \E u \in found :
            LET user == users[u]
                hospital == populateHospital(user.hospitalId)
                R(kind) == Resp("staffLogin", kind, email, password, u, user, NoToken)
            IN
            IF ~user.isActive
            THEN /\ last' = R("AccountInactive")
                 /\ UNCHANGED <<users, sessions>>
            ELSE IF hospital = {}
            THEN \* user.hospitalId is null: reading .isVerified throws
                 /\ last' = R("Unexpected")
                 /\ UNCHANGED <<users, sessions>>
            ELSE IF \E hosp \in hospital : ~hosp.isVerified \/ hosp.status # "active"
            THEN /\ last' = R("TenantInactive")
                 /\ UNCHANGED <<users, sessions>>
            ELSE IF ~comparePassword(user, password)
            THEN /\ last' = R("InvalidCredentials")
                 /\ UNCHANGED <<users, sessions>>
            ELSE LET token == StaffToken(u, user) IN
                 /\ users' = [users EXCEPT ![u] = preSaveUser([user EXCEPT !.lastLogin = now], FALSE)]
                 /\ sessions' = Keep(token)
                 /\ last' = Resp("staffLogin", "Success", email, password, u, user, token)

\* POST /api/auth/change-password (protect, userOnly)
ChangePassword(token, currentPassword, newPassword) ==
    LET p == protect(token)
        R(kind, u) == [Resp("changePassword", kind, token.email, newPassword, u,
                            IF u = Null THEN Null ELSE users[u], token)
                         EXCEPT !.req = p.req]
    IN
    /\ UNCHANGED <<now, ticks, oid, hospitals, admins, verifications, sessions, redeemed, inflight>>
    /\ IF p.kind # "Next"
       THEN /\ last' = R(p.kind, Null)
            /\ UNCHANGED users
       ELSE IF p.req.staffUser = {}
       THEN /\ last' = R("UserRequired", Null)
            /\ UNCHANGED users
       ELSE \E reqUser \in p.req.user :
            IF findById(users, reqUser.id) = {}
            THEN /\ last' = R("NotFound", Null)
                 /\ UNCHANGED users
            ELSE IF ~comparePassword(users[reqUser.id], currentPassword)
            THEN /\ last' = R("InvalidPassword", reqUser.id)
                 /\ UNCHANGED users
            ELSE /\ users' = [users EXCEPT ![reqUser.id] =
                                  preSaveUser([@ EXCEPT !.password = newPassword], TRUE)]
                 /\ last' = R("PasswordChanged", reqUser.id)

---------------------------------------------------------------------------
(* Request inputs.                                                         *)

HospitalData ==
    { [email |-> "h1@x", registrationNumber |-> "RN1", licenseNumber |-> "LN1", hospitalNumber |-> "HN1"] }
AdminData == { [email |-> "a1@x", password |-> "Passw0rd"] }
Emails == {"a1@x", "a2@x"}
Passwords == {"Passw0rd", "wrong"}
Codes == {100000, 999999}
RegistrationCodes == {100000}
ClientIPs == {"10.0.0.1"}

Init ==
    /\ now = 0
    /\ ticks = 0
    /\ oid = [hospital |-> 0, admin |-> 0, verification |-> 0, user |-> 0]
    /\ hospitals = Empty
    /\ admins = Empty
    /\ verifications = Empty
    /\ users = Empty
    /\ sessions = {}
    /\ redeemed = Empty
    /\ inflight = Empty
    /\ last = Resp("init", "", "", Null, Null, Null, NoToken)

\* Onboarding: registration (the mail goes out), redemption and reissue
\* of the verification code, the clock and the TTL index.
Next ==
    \/ \E hd \in HospitalData, ad \in AdminData, code \in RegistrationCodes :
          Register(hd, ad, code, TRUE)
    \/ \E email \in Emails, code \in Codes : VerifyEmail(email, code)
    \/ \E email \in Emails, code \in Codes, emailOk \in BOOLEAN :
          ResendVerification(email, code, emailOk)
    \/ Tick
    \/ \E v \in DOMAIN verifications : ExpireVerification(v)

Spec == Init /\ [][Next]_vars

\* Admin login: an onboarded administrator (registered, and verified with
\* the code that was mailed) logging in with right and wrong passwords.
NextLogin ==
    \/ \E hd \in HospitalData, ad \in AdminData, code \in RegistrationCodes :
          Register(hd, ad, code, TRUE)
    \/ \E v \in DOMAIN verifications :
          VerifyEmail(verifications[v].email, verifications[v].token)
    \/ \E email \in Emails, password \in Passwords, ip \in ClientIPs :
          AdminLogin(email, password, ip)
    \/ \E h \in DOMAIN hospitals, status \in {"active", "suspended"} :
          SetHospitalStatus(h, status)
    \/ \E a \in DOMAIN admins, isActive \in BOOLEAN, isEmailVerified \in BOOLEAN :
          SetAdminFlags(a, isActive, isEmailVerified)
    \/ Tick

SpecLogin == Init /\ [][NextLogin]_vars

---------------------------------------------------------------------------
(* Properties of admin login (checked under SpecLogin).                    *)

\* the request in "last" is an admin login that found the account
IsAdminLogin == last.op = "adminLogin" /\ last.id # Null
\* ... and the account was locked when the request arrived
WasLocked == last.pre.lockUntil # Null /\ last.pre.lockUntil > now
\* ... and the submitted password is the account's password
PasswordMatched == last.pre.password = bcryptHash(last.arg.password)

\* C1: the account is locked exactly when loginAttempts has reached
\* maxAttempts; a wrong password on an unlocked account adds one to
\* loginAttempts and, when that reaches maxAttempts, sets lockUntil to
\* now + lock duration (a future time); every login on a locked account,
\* the correct password included, is answered AccountLocked without a token.
C1_LockoutAfterMaxAttempts ==
    /\ \A a \in DOMAIN admins :
          (admins[a].lockUntil # Null) <=> (admins[a].loginAttempts >= MaxLoginAttempts)
    /\ IsAdminLogin =>
          /\ WasLocked => (last.kind = "AccountLocked" /\ last.token = NoToken)
          /\ (~WasLocked /\ ~PasswordMatched) =>
                /\ admins[last.id].loginAttempts = last.pre.loginAttempts + 1
                /\ admins[last.id].lockUntil =
                      IF last.pre.loginAttempts + 1 >= MaxLoginAttempts
                      THEN now + LockDuration ELSE Null
                /\ admins[last.id].lockUntil # Null => admins[last.id].lockUntil > now
                /\ last.token = NoToken

\* C1 witness: after maxAttempts wrong passwords the correct password of an
\* otherwise valid account is answered AccountLocked
C1_Witness ==
    /\ IsAdminLogin /\ last.kind = "AccountLocked"
    /\ PasswordMatched /\ WasLocked
    /\ last.pre.loginAttempts = MaxLoginAttempts
    /\ last.pre.lockUntil = now + LockDuration
    /\ last.pre.isActive /\ last.pre.isEmailVerified
    /\ hospitals[last.pre.hospitalId].status = "active"

\* C2: a successful admin login leaves loginAttempts = 0, lockUntil cleared
\* and lastLoginAt / lastLoginIP recorded
C2_SuccessResetsLockout ==
    (IsAdminLogin /\ last.kind = "Success") =>
        /\ admins[last.id].loginAttempts = 0
        /\ admins[last.id].lockUntil = Null
        /\ admins[last.id].lastLoginAt = now
        /\ admins[last.id].lastLoginIP = last.arg.ip

\* C2 witness: a successful login of an account whose counter stood at
\* maxAttempts or more and whose lock had expired
C2_Witness ==
    /\ IsAdminLogin /\ last.kind = "Success"
    /\ last.pre.loginAttempts > MaxLoginAttempts
    /\ last.pre.lockUntil # Null /\ last.pre.lockUntil <= now

\* the token of the answer in "last" passes protect and resolves to the
\* administrator and the tenant of the login, with matching claims
TokenAcceptedForSameAdmin ==
    /\ last.token.adminId = last.id
    /\ last.token.hospitalId = last.pre.hospitalId
    /\ last.token.email = last.pre.email
    /\ last.token.role = last.pre.role
    /\ protect(last.token).kind = "Next"
    /\ protect(last.token).req.admin # {}
    /\ \A adm \in protect(last.token).req.admin : adm._id = last.id
    /\ protect(last.token).req.hospital # {}
    /\ \A hosp \in protect(last.token).req.hospital : hosp._id = last.pre.hospitalId

\* the account of the login in "last" is active and verified, its tenant active
AccountInGoodStanding ==
    /\ last.pre.isActive /\ last.pre.isEmailVerified
    /\ last.pre.hospitalId \in DOMAIN hospitals
    /\ hospitals[last.pre.hospitalId].status = "active"

\* C3 as stated: an active, verified administrator of an active tenant
\* always logs in with the correct password
C3_Original ==
    (IsAdminLogin /\ PasswordMatched /\ AccountInGoodStanding) =>
        (last.kind = "Success" /\ TokenAcceptedForSameAdmin)

\* C3 amended: an active, verified administrator of an active tenant whose
\* account is not locked logs in with the correct password, and the token
\* returned passes protect, resolving to the same administrator and tenant
C3_LoginSucceedsUnlessLocked ==
    (IsAdminLogin /\ PasswordMatched /\ AccountInGoodStanding /\ ~WasLocked) =>
        (last.kind = "Success" /\ TokenAcceptedForSameAdmin)

\* C3 witness: a successful login whose token protect accepts
C3_Witness ==
    /\ IsAdminLogin /\ last.kind = "Success" /\ PasswordMatched /\ AccountInGoodStanding
    /\ TokenAcceptedForSameAdmin

---------------------------------------------------------------------------
(* Staff administration and authentication in an onboarded tenant.         *)

StaffEmails == {"s1@x"}
StaffRoles == {"doctor"}
StaffBodies == [email : StaffEmails, role : StaffRoles]
TemporaryPasswords == {"Tmp#Passw0rd"}
StaffPasswords == TemporaryPasswords \cup {"wrong"}
StaffIds == 1..MaxStaff

Modules == {"billing", "inventory"}
Actions == {"read", "delete", "manage"}
ActionLists == {{"read"}, {"delete"}, {"read", "manage"}}
PermissionEntries == [module : Modules, actions : ActionLists]
PermissionSets == {P \in SUBSET PermissionEntries : Cardinality(P) <= MaxPermissions}

\* req.body of PUT /api/users/:id
StaffUpdates ==
    {[isActive |-> JsonBoolean(FALSE)], [isActive |-> JsonBoolean(TRUE)], [role |-> "nurse"]}

\* The state in which register-with-verification and verify-email leave a
\* tenant: active and verified, its administrator holding the returned token.
InitStaff ==
    \E hd \in HospitalData, ad \in AdminData, code \in RegistrationCodes :
        /\ now = 0
        /\ ticks = 0
        /\ oid = [hospital |-> 1, admin |-> 1, verification |-> 1, user |-> 0]
        /\ hospitals = Put(Empty, 1, ActivateHospital(NewHospital(1, hd, GenerateHospitalId(0))))
        /\ admins = Put(Empty, 1, ActivateAdmin(NewAdmin(1, ad, 1)))
        /\ verifications = Put(Empty, 1, MarkUsed(preSaveVerification(NewEmailVerification(1, ad, code, 1, 1))))
        /\ users = Empty
        /\ sessions = {AdminToken(1, NewAdmin(1, ad, 1), 1)}
        /\ redeemed = Put(Empty, 1, [email |-> ad.email, token |-> code, count |-> 1])
        /\ inflight = Empty
        /\ last = Resp("verifyEmail", "Success", ad.email, code, 1,
                       preSaveVerification(NewEmailVerification(1, ad, code, 1, 1)),
                       AdminToken(1, NewAdmin(1, ad, 1), 1))

NextStaff ==
    \/ \E token \in IssuedTokens, body \in StaffBodies, pw \in TemporaryPasswords :
          CreateStaff(token, body, pw, TRUE)
    \/ \E token \in IssuedTokens, id \in StaffIds, updateData \in StaffUpdates :
          UpdateStaff(token, id, updateData)
    \/ \E token \in IssuedTokens, id \in StaffIds : DeleteStaff(token, id)
    \/ \E email \in StaffEmails, password \in StaffPasswords : StaffLogin(email, password)
    \/ \E ad \in AdminData, clientIP \in ClientIPs : AdminLogin(ad.email, ad.password, clientIP)
    \/ \E token \in BearerTokens : Protect(token)
    \/ \E h \in DOMAIN hospitals, status \in {"active", "suspended"} : SetHospitalStatus(h, status)
    \/ \E a \in DOMAIN admins, isActive \in BOOLEAN, isEmailVerified \in BOOLEAN :
          SetAdminFlags(a, isActive, isEmailVerified)
    \/ TickTo(SessionDeadlines)

SpecStaff == InitStaff /\ [][NextStaff]_vars

---------------------------------------------------------------------------
(* Staff rosters of two onboarded tenants.                                 *)

SecondHospitalData ==
    [email |-> "h2@x", registrationNumber |-> "RN2", licenseNumber |-> "LN2", hospitalNumber |-> "HN2"]
SecondAdminData == [email |-> "a2@x", password |-> "Passw0rd2"]

RosterEmails == {"s1@x", "s2@x", "a1@x"}
RosterRoles == {"doctor", "nurse"}
RosterBodies == [email : RosterEmails, role : RosterRoles]
RosterIds == 1..MaxRoster
ResetPasswords == {"Tmp#Reset001"}

\* req.body of PUT /api/users/:id
RosterUpdates ==
    {[isActive |-> JsonBoolean(FALSE)], [isActive |-> JsonString("false")],
     [isActive |-> JsonString("no")]}

\* The state two registrations, each followed by its verify-email, leave:
\* two active tenants, each administrator holding the token it was given.
InitRoster ==
    \E hd \in HospitalData, ad \in AdminData, code \in RegistrationCodes :
        LET verification1 == preSaveVerification(NewEmailVerification(1, ad, code, 1, 1))
            verification2 == preSaveVerification(NewEmailVerification(2, SecondAdminData, code, 2, 2))
        IN
        /\ now = 0
        /\ ticks = 0
        /\ oid = [hospital |-> 2, admin |-> 2, verification |-> 2, user |-> 0]
        /\ hospitals = Put(Put(Empty, 1, ActivateHospital(NewHospital(1, hd, GenerateHospitalId(0)))),
                           2, ActivateHospital(NewHospital(2, SecondHospitalData, GenerateHospitalId(1))))
        /\ admins = Put(Put(Empty, 1, ActivateAdmin(NewAdmin(1, ad, 1))),
                        2, ActivateAdmin(NewAdmin(2, SecondAdminData, 2)))
        /\ verifications = Put(Put(Empty, 1, MarkUsed(verification1)), 2, MarkUsed(verification2))
        /\ users = Empty
        /\ sessions = {AdminToken(1, NewAdmin(1, ad, 1), 1), AdminToken(2, NewAdmin(2, SecondAdminData, 2), 2)}
        /\ redeemed = Put(Put(Empty, 1, [email |-> ad.email, token |-> code, count |-> 1]),
                          2, [email |-> SecondAdminData.email, token |-> code, count |-> 1])
        /\ inflight = Empty
        /\ last = Resp("verifyEmail", "Success", SecondAdminData.email, code, 2, verification2,
                       AdminToken(2, NewAdmin(2, SecondAdminData, 2), 2))

\* Hiring and dismissal in both tenants.
NextRoster ==
    \/ \E token \in sessions, body \in RosterBodies, pw \in TemporaryPasswords,
          emailOk \in BOOLEAN :
          CreateStaffWithin(MaxRoster, token, body, pw, emailOk)
    \/ \E token \in sessions, id \in RosterIds : DeleteStaff(token, id)

SpecRoster == InitRoster /\ [][NextRoster]_vars

\* Either administrator acting on the staff records of both tenants.
NextScope ==
    \/ \E token \in sessions, body \in RosterBodies, pw \in TemporaryPasswords :
          CreateStaff(token, body, pw, TRUE)
    \/ \E token \in sessions, id \in StaffIds, updateData \in RosterUpdates :
          UpdateStaff(token, id, updateData)
    \/ \E token \in sessions, id \in StaffIds : DeleteStaff(token, id)
    \/ \E token \in sessions, id \in StaffIds, pw \in ResetPasswords, emailOk \in BOOLEAN :
          ResetStaffPassword(token, id, pw, emailOk)

SpecScope == InitRoster /\ [][NextScope]_vars

---------------------------------------------------------------------------
(* Onboarding of two tenants, with the mail service and the store failing. *)

\* hospitalData of a second registration that repeats one unique field of
\* the first
ClashingHospitalData ==
    {[SecondHospitalData EXCEPT !.email = "h1@x"],
     [SecondHospitalData EXCEPT !.registrationNumber = "RN1"],
     [SecondHospitalData EXCEPT !.licenseNumber = "LN1"],
     [SecondHospitalData EXCEPT !.hospitalNumber = "HN1"]}

RegHospitalData == HospitalData \cup {SecondHospitalData} \cup ClashingHospitalData
RegAdminData == AdminData \cup {SecondAdminData}

\* hospital.save(), admin.save(), verification.save(): how many resolve
SaveOutcomes == 0..3

NextReg ==
    \/ \E hd \in RegHospitalData, ad \in RegAdminData, code \in RegistrationCodes,
          emailOk \in BOOLEAN :
          Register(hd, ad, code, emailOk)
    \/ \E v \in DOMAIN verifications, writes \in SaveOutcomes :
          VerifyEmailWrites(verifications[v].email, verifications[v].token, writes)
    \/ Tick

SpecReg == Init /\ [][NextReg]_vars

\* Reissue of the code: one registration, verify-email with right and wrong
\* codes and with saves that fail, resend-verification, and the clock.
NextResend ==
    \/ \E hd \in HospitalData, ad \in AdminData, code \in RegistrationCodes :
          Register(hd, ad, code, TRUE)
    \/ \E email \in Emails, code \in Codes, writes \in SaveOutcomes :
          VerifyEmailWrites(email, code, writes)
    \/ \E email \in Emails, code \in Codes, emailOk \in BOOLEAN :
          ResendVerification(email, code, emailOk)
    \/ Tick

SpecResend == Init /\ [][NextResend]_vars

---------------------------------------------------------------------------
(* Authorization decisions: every principal protect can attach, against   *)
(* every (module, action).                                                 *)

InitAuthz ==
    \E hd \in HospitalData, ad \in AdminData, code \in RegistrationCodes,
       adminRole \in {"admin", "super_admin"}, body \in StaffBodies,
       pw \in TemporaryPasswords, permissions \in PermissionSets :
        LET admin == [ActivateAdmin(NewAdmin(1, ad, 1)) EXCEPT !.role = adminRole]
            user == [preSaveUser(NewUser(1, body, pw, 1, <<rolePrefix(body.role), 0, 0, 0, 1>>, 1), TRUE)
                        EXCEPT !.permissions = permissions]
        IN
        /\ now = 0
        /\ ticks = 0
        /\ oid = [hospital |-> 1, admin |-> 1, verification |-> 1, user |-> 1]
        /\ hospitals = Put(Empty, 1, ActivateHospital(NewHospital(1, hd, GenerateHospitalId(0))))
        /\ admins = Put(Empty, 1, admin)
        /\ verifications = Put(Empty, 1, MarkUsed(preSaveVerification(NewEmailVerification(1, ad, code, 1, 1))))
        /\ users = Put(Empty, 1, user)
        /\ sessions = {AdminToken(1, admin, 1), StaffToken(1, user)}
        /\ redeemed = Put(Empty, 1, [email |-> ad.email, token |-> code, count |-> 1])
        /\ inflight = Empty
        /\ last = Resp("init", "", "", Null, Null, Null, NoToken)

NextAuthz ==
    \E token \in BearerTokens, module \in Modules, action \in Actions :
        CheckPermission(token, module, action)

SpecAuthz == InitAuthz /\ [][NextAuthz]_vars

\* Staff records under the routes that write them: the administrators of
\* two tenants create, update and reset; the staff member logs in and
\* changes the password.  The update bodies carry fields the route's
\* validators do not name.
ClientPasswords == {"Client#Passw0rd"}
BodyUpdates ==
    {[role |-> "nurse"]}
    \cup {[hospitalId |-> h] : h \in 1..MaxRegistrations}
    \cup {[password |-> pw] : pw \in ClientPasswords}

NextUpdate ==
    \/ \E token \in sessions, body \in StaffBodies, pw \in TemporaryPasswords :
          CreateStaff(token, body, pw, TRUE)
    \/ \E token \in sessions, id \in StaffIds, updateData \in BodyUpdates :
          UpdateStaff(token, id, updateData)
    \/ \E token \in sessions, id \in StaffIds, pw \in ResetPasswords, emailOk \in BOOLEAN :
          ResetStaffPassword(token, id, pw, emailOk)
    \/ \E email \in StaffEmails, password \in TemporaryPasswords \cup ResetPasswords \cup ClientPasswords :
          StaffLogin(email, password)
    \/ \E token \in sessions, current \in TemporaryPasswords \cup ResetPasswords,
          new \in ClientPasswords :
          ChangePassword(token, current, new)

SpecUpdate == InitRoster /\ [][NextUpdate]_vars

\* optionalAuth on the tokens of the administrator and the staff member,
\* while tooling changes the tenant's status and the administrator's flags
\* and the tokens age.
NextOptional ==
    \/ \E token \in BearerTokens : OptionalAuth(token)
    \/ \E h \in DOMAIN hospitals, status \in HospitalStatuses : SetHospitalStatus(h, status)
    \/ \E a \in DOMAIN admins, isActive \in BOOLEAN, isEmailVerified \in BOOLEAN :
          SetAdminFlags(a, isActive, isEmailVerified)
    \/ TickTo(SessionDeadlines)

SpecOptional == InitAuthz /\ [][NextOptional]_vars

\* The same for requirePermission: a staff member of any role the schema
\* allows an administrator to give, holding plain or 'manage' entries.
RequireRoles == {"doctor", "admin"}
RequireActionLists == {{"read"}, {"manage"}}
RequirePermissionSets ==
    {P \in SUBSET [module : Modules, actions : RequireActionLists] : Cardinality(P) <= MaxPermissions}

InitRequire ==
    \E hd \in HospitalData, ad \in AdminData, code \in RegistrationCodes,
       email \in StaffEmails, role \in RequireRoles,
       pw \in TemporaryPasswords, permissions \in RequirePermissionSets :
        LET admin == ActivateAdmin(NewAdmin(1, ad, 1))
            body == [email |-> email, role |-> role]
            user == [preSaveUser(NewUser(1, body, pw, 1, <<rolePrefix(role), 0, 0, 0, 1>>, 1), TRUE)
                        EXCEPT !.permissions = permissions]
        IN
        /\ now = 0
        /\ ticks = 0
        /\ oid = [hospital |-> 1, admin |-> 1, verification |-> 1, user |-> 1]
        /\ hospitals = Put(Empty, 1, ActivateHospital(NewHospital(1, hd, GenerateHospitalId(0))))
        /\ admins = Put(Empty, 1, admin)
        /\ verifications = Put(Empty, 1, MarkUsed(preSaveVerification(NewEmailVerification(1, ad, code, 1, 1))))
        /\ users = Put(Empty, 1, user)
        /\ sessions = {AdminToken(1, admin, 1), StaffToken(1, user)}
        /\ redeemed = Put(Empty, 1, [email |-> ad.email, token |-> code, count |-> 1])
        /\ inflight = Empty
        /\ last = Resp("init", "", "", Null, Null, Null, NoToken)

NextRequire ==
    \E token \in BearerTokens, module \in Modules, action \in Actions :
        RequirePermission(token, module, action)

SpecRequire == InitRequire /\ [][NextRequire]_vars

---------------------------------------------------------------------------
(* Properties of the verification ledger, checked under Spec.              *)

IsVerifyEmail == last.op = "verifyEmail"

\* the record the last verify-email request was answered from, as it was
\* before the request
OnRecord == IsVerifyEmail /\ last.id # Null

\* the redemptions of (email, code) that succeeded before the last request
EarlierRedemptions ==
    IF IsVerifyEmail
    THEN {id \in DOMAIN redeemed :
             /\ redeemed[id].email = last.email
             /\ redeemed[id].token = last.arg
             /\ ~(last.kind = "Success" /\ last.id = id /\ redeemed[id].count = 1)}
    ELSE {}

AtMostOneRedemption == \A id \in DOMAIN redeemed : redeemed[id].count <= 1

\* C4 as stated: once verify-email has succeeded for (email, code), every
\* later verify-email with the same email and code is answered AlreadyUsed,
\* and no record is redeemed twice.
C4_Original ==
    /\ AtMostOneRedemption
    /\ EarlierRedemptions # {} => last.kind = "AlreadyUsed"

\* C4 (amended): once verify-email has succeeded for (email, code), a later
\* verify-email with the same email and code never succeeds; it is answered
\* AlreadyUsed as long as the record is still stored, and InvalidToken once
\* the TTL index has deleted it; no record is redeemed twice.
C4_SingleUse ==
    /\ AtMostOneRedemption
    /\ \A id \in EarlierRedemptions :
          /\ last.kind # "Success"
          /\ last.token = NoToken
          /\ id \in DOMAIN verifications => last.kind = "AlreadyUsed"
          /\ id \notin DOMAIN verifications => last.kind = "InvalidToken"

C4_Witness ==
    /\ EarlierRedemptions # {}
    /\ last.kind = "AlreadyUsed"
    /\ last.id \in EarlierRedemptions
    /\ last.pre.isUsed /\ last.pre.token = last.arg

Activated(ver) ==
    \/ \E a \in DOMAIN admins :
          a = ver.metadata.adminId /\ (admins[a].isActive \/ admins[a].isEmailVerified)
    \/ \E h \in DOMAIN hospitals :
          h = ver.metadata.hospitalId /\ (hospitals[h].isVerified \/ hospitals[h].status = "active")

\* C5 as stated: a verify-email request on a pending record made at or
\* after its expiresAt is answered Expired, activates nobody, and adds one to
\* the record's attempts.
C5_ExpiredStillCounts ==
    (OnRecord /\ ~last.pre.isUsed /\ last.pre.expiresAt <= now) =>
        /\ last.kind = "Expired"
        /\ last.token = NoToken
        /\ ~Activated(last.pre)
        /\ last.id \in DOMAIN verifications
        /\ verifications[last.id].attempts = last.pre.attempts + 1

\* what the code does there: Expired, nobody activated, attempts untouched
C5_ExpiredLeavesAttempts ==
    (OnRecord /\ ~last.pre.isUsed /\ last.pre.expiresAt <= now) =>
        /\ last.kind = "Expired"
        /\ last.token = NoToken
        /\ ~Activated(last.pre)
        /\ verifications[last.id] = last.pre

C5_Reached ==
    /\ OnRecord /\ ~last.pre.isUsed /\ last.pre.expiresAt <= now
    /\ last.arg = last.pre.token
    /\ last.kind = "Expired"

\* C6: a verify-email request with the correct, unexpired code of a pending
\* record that has already counted maxAttempts failed redemptions is answered
\* TooManyAttempts; neither tenant nor administrator is activated and no
\* session token is issued.
C6_BudgetExhausted ==
    (/\ OnRecord
     /\ last.pre.attempts >= VerificationMaxAttempts
     /\ last.pre.token = last.arg
     /\ ~last.pre.isUsed
     /\ last.pre.expiresAt > now) =>
        /\ last.kind = "TooManyAttempts"
        /\ last.token = NoToken
        /\ ~Activated(last.pre)
        /\ \A t \in sessions : t.adminId # last.pre.metadata.adminId
        /\ ~verifications[last.id].isUsed
        /\ verifications[last.id].isBlocked

C6_Witness ==
    /\ OnRecord
    /\ last.pre.attempts = VerificationMaxAttempts
    /\ last.pre.maxAttempts = VerificationMaxAttempts
    /\ last.pre.token = last.arg
    /\ ~last.pre.isUsed
    /\ last.pre.expiresAt > now
    /\ last.kind = "TooManyAttempts"

StoredInBoth(v) == v \in DOMAIN verifications /\ v \in DOMAIN verifications'

\* C7 as stated: once isBlocked is true it stays true in every later state
\* of the same record, whatever the operation.
C7_Original ==
    [][\A v \in DOMAIN verifications :
          (StoredInBoth(v) /\ verifications[v].isBlocked) => verifications'[v].isBlocked]_vars

\* C7 (amended): a record's isBlocked stays true under verify-email (and
\* while time passes); only resend-verification clears it, and in doing so
\* resets attempts to 0 and gives the record a fresh expiry.
C7_BlockedUntilReissued ==
    [][\A v \in DOMAIN verifications :
          (StoredInBoth(v) /\ verifications[v].isBlocked) =>
              \/ verifications'[v].isBlocked
              \/ /\ last'.op = "resendVerification"
                 /\ last'.id = v
                 /\ verifications'[v].attempts = 0
                 /\ verifications'[v].expiresAt = now + VerificationExpiry]_vars

C7_Witness ==
    /\ OnRecord
    /\ last.pre.isBlocked
    /\ last.id \in DOMAIN verifications
    /\ verifications[last.id].isBlocked
    /\ last.kind \in {"TooManyAttempts", "InvalidToken"}

---------------------------------------------------------------------------
(* Properties of checkPermission, checked under SpecAuthz.                 *)

\* a request that protect let through and checkPermission then decided
Decided == last.op = "checkPermission" /\ last.req.user # {}

BillingReadManage == {[module |-> "billing", actions |-> {"read", "manage"}]}

\* C8: checkPermission(module, action) lets every administrator through
\* (role admin or super_admin); it lets a staff member through exactly when
\* some entry of the stored permission set names the module and lists the
\* action or 'manage', and answers Forbidden otherwise.  With the set
\* {billing: [read, manage]}: (billing, read) and (billing, delete) pass,
\* (inventory, read) is Forbidden.
C8_PermissionDecision ==
    Decided =>
        IF last.token.adminId # Null
        THEN last.kind = "Next"
        ELSE LET granted == users[last.token.userId].permissions
                 allowed == \E entry \in granted :
                               /\ entry.module = last.arg.module
                               /\ {last.arg.action, "manage"} \cap entry.actions # {}
             IN
             /\ last.kind = (IF allowed THEN "Next" ELSE "Forbidden")
             /\ granted = BillingReadManage =>
                   /\ last.arg = [module |-> "billing", action |-> "read"] => last.kind = "Next"
                   /\ last.arg = [module |-> "billing", action |-> "delete"] => last.kind = "Next"
                   /\ last.arg = [module |-> "inventory", action |-> "read"] => last.kind = "Forbidden"

C8_Witness ==
    /\ Decided
    /\ last.token.userId # Null
    /\ users[last.token.userId].permissions = BillingReadManage
    /\ last.arg = [module |-> "billing", action |-> "delete"]
    /\ last.kind = "Next"

---------------------------------------------------------------------------
(* Properties of protect and of the two logins, checked under SpecStaff.   *)

ValidToken(token) == token # NoToken /\ jwtVerify(token, JWT_SECRET) = "ok"

IsLogin == last.op \in {"adminLogin", "staffLogin"}

\* the operations that go through protect
ThroughProtect == last.op \in {"protect", "createStaff", "updateStaff", "deleteStaff"}

\* what such a request answers once protect has let it through
Accepted == {"Next", "AdminRequired", "Conflict", "Unexpected", "Created", "EmailDispatchFailed",
             "NotFound", "CannotDeactivateSelf", "CannotDeleteSelf", "Updated", "Deleted"}

\* the tenant the token was issued for is not (or no longer) active
TenantNotActive(token) ==
    \/ token.hospitalId \notin DOMAIN hospitals
    \/ hospitals[token.hospitalId].status # "active"

\* the principal of the token, as stored now
PrincipalDeleted(token) ==
    IF token.adminId # Null THEN token.adminId \notin DOMAIN admins
    ELSE token.userId \notin DOMAIN users

PrincipalDeactivated(token) ==
    /\ ~PrincipalDeleted(token)
    /\ IF token.adminId # Null THEN ~admins[token.adminId].isActive
       ELSE ~users[token.userId].isActive

PrincipalUnverified(token) ==
    /\ token.adminId # Null
    /\ ~PrincipalDeleted(token)
    /\ ~admins[token.adminId].isEmailVerified

PrincipalInGoodStanding(token) ==
    ~PrincipalDeleted(token) /\ ~PrincipalDeactivated(token) /\ ~PrincipalUnverified(token)

\* no login of a principal whose tenant is not active succeeds
NoLoginWhileTenantNotActive ==
    (IsLogin /\ last.id # Null /\ hospitals[last.pre.hospitalId].status # "active") =>
        last.kind # "Success" /\ last.token = NoToken

\* C9 as stated: while a tenant's status is not 'active', no administrator
\* or staff member of it logs in, and every request through protect with a
\* still-unexpired token of such a principal is rejected with TenantInactive.
C9_Original ==
    /\ NoLoginWhileTenantNotActive
    /\ \A token \in sessions :
          (ValidToken(token) /\ TenantNotActive(token)) => protect(token).kind = "TenantInactive"
    /\ (ThroughProtect /\ ValidToken(last.token) /\ TenantNotActive(last.token)) =>
          last.kind = "TenantInactive"

\* C9 (amended): while a tenant's status is not 'active', no administrator
\* or staff member of it logs in, and every request through protect with a
\* still-unexpired token of such a principal is rejected: with TenantInactive
\* when the principal is still stored, active and (administrators)
\* email-verified, and with the principal's own failure (NotAuthorized,
\* AccountInactive, EmailNotVerified) otherwise, which protect checks first.
C9_TenantGate ==
    /\ NoLoginWhileTenantNotActive
    /\ \A token \in sessions :
          (ValidToken(token) /\ TenantNotActive(token)) =>
              /\ protect(token).kind \in {"TenantInactive", "NotAuthorized", "AccountInactive", "EmailNotVerified"}
              /\ protect(token).req = NoReq
              /\ PrincipalInGoodStanding(token) <=> protect(token).kind = "TenantInactive"
    /\ (ThroughProtect /\ ValidToken(last.token) /\ TenantNotActive(last.token)) =>
          /\ last.kind \notin Accepted
          /\ last.req = NoReq
          /\ PrincipalInGoodStanding(last.token) <=> last.kind = "TenantInactive"

C9_Witness ==
    /\ last.op = "protect"
    /\ ValidToken(last.token)
    /\ last.token.userId # Null
    /\ TenantNotActive(last.token)
    /\ PrincipalInGoodStanding(last.token)
    /\ last.kind = "TenantInactive"

\* what protect must have found in the store to let the token through, and
\* what it then attaches: the stored principal, not the token's claims
ReloadedFromStore(token, req) ==
    IF token.adminId # Null
    THEN /\ token.adminId \in DOMAIN admins
         /\ admins[token.adminId].isActive
         /\ admins[token.adminId].isEmailVerified
         /\ req.admin = {selectWithoutPassword(admins[token.adminId])}
         /\ req.hospital = {hospitals[admins[token.adminId].hospitalId]}
         /\ req.staffUser = {}
    ELSE /\ token.userId \in DOMAIN users
         /\ users[token.userId].isActive
         /\ req.staffUser = {selectWithoutPassword(users[token.userId])}
         /\ req.hospital = {hospitals[users[token.userId].hospitalId]}
         /\ req.admin = {}
         /\ \A user \in req.user :
               /\ user.role = users[token.userId].role
               /\ user.permissions = {users[token.userId].permissions}

RejectionFor(token) ==
    IF PrincipalDeleted(token) THEN "NotAuthorized"
    ELSE IF PrincipalDeactivated(token) THEN "AccountInactive"
    ELSE "EmailNotVerified"

\* C10: protect lets a token through only after reloading its principal
\* from the store; a token with a valid signature and expiry whose principal
\* has been deleted, deactivated or (administrator) un-verified is rejected,
\* on protect itself and on every route behind it.
C10_ReloadsPrincipal ==
    /\ \A token \in sessions :
          /\ protect(token).kind = "Next" => ReloadedFromStore(token, protect(token).req)
          /\ (ValidToken(token) /\ ~PrincipalInGoodStanding(token)) =>
                protect(token).kind = RejectionFor(token) /\ protect(token).req = NoReq
    /\ (ThroughProtect /\ ValidToken(last.token) /\ ~PrincipalInGoodStanding(last.token)) =>
          last.kind = RejectionFor(last.token) /\ last.req = NoReq

C10_Witness ==
    /\ last.op = "protect"
    /\ ValidToken(last.token)
    /\ last.token.userId # Null
    /\ PrincipalDeleted(last.token)
    /\ last.kind = "NotAuthorized"

---------------------------------------------------------------------------
(* Properties of the staff rosters, checked under SpecRoster.              *)

StaffCreated == last.op = "createStaff" /\ last.kind = "Created"

\* nobody has been dismissed yet, and no creation has failed: the staff
\* stored are all the staff ever created
NobodyDismissed == oid.user = Cardinality(DOMAIN users)

\* the staff of a tenant and role that were stored before the last request
ColleaguesBefore(hospitalId, role) ==
    {u \in DOMAIN last.pre : last.pre[u].hospitalId = hospitalId /\ last.pre[u].role = role}

TenantStaffBefore(hospitalId) ==
    {u \in DOMAIN last.pre : last.pre[u].hospitalId = hospitalId}

EmployeeCode(role, k) == <<rolePrefix(role)>> \o padStart(DecimalDigits(k), 4)

\* C11 as stated: the k-th staff member of a role created in a tenant gets
\* the role prefix followed by k, zero-padded to four digits, whatever staff
\* of other roles the tenant already has.
C11_PerRoleSequence ==
    (StaffCreated /\ NobodyDismissed) =>
        users[last.id].employeeId =
            EmployeeCode(last.arg.role,
                         Cardinality(ColleaguesBefore(users[last.id].hospitalId, last.arg.role)) + 1)

\* what the code does: the sequence number counts the tenant's staff of
\* every role
C11_PerTenantSequence ==
    StaffCreated =>
        users[last.id].employeeId =
            EmployeeCode(last.arg.role,
                         Cardinality(TenantStaffBefore(users[last.id].hospitalId)) + 1)

C11_Reached ==
    /\ StaffCreated /\ NobodyDismissed
    /\ last.arg.role = "doctor"
    /\ ColleaguesBefore(users[last.id].hospitalId, "doctor") = {}
    /\ users[last.id].employeeId = EmployeeCode("doctor", 2)

\* C12 as stated: createStaff is never refused on account of an employeeId
\* held in another tenant: when the save fails on a duplicate employeeId,
\* the duplicate is a staff member of the administrator's own tenant.
C12_UniquePerTenant ==
    (last.op = "createStaff" /\ last.kind = "Unexpected") =>
        \E u \in TenantStaffBefore(last.token.hospitalId) :
            last.pre[u].employeeId =
                EmployeeCode(last.arg.role, Cardinality(TenantStaffBefore(last.token.hospitalId)) + 1)

\* what the code does: the first doctor of the second tenant collides with
\* DR0001 of the first
C12_Reached ==
    /\ last.op = "createStaff" /\ last.kind = "Unexpected"
    /\ TenantStaffBefore(last.token.hospitalId) = {}
    /\ \E u \in DOMAIN users :
          /\ users[u].hospitalId # last.token.hospitalId
          /\ users[u].employeeId = EmployeeCode(last.arg.role, 1)

---------------------------------------------------------------------------
(* Properties of onboarding: C13 under Spec, C14, C15 and C17 under        *)
(* SpecReg.                                                                *)

IsRegister == last.op = "register"

\* the last request was a registration that arrived at an empty store and
\* was accepted
RegisteredOnEmptyStore ==
    /\ IsRegister /\ last.kind = "VerificationRequired"
    /\ DOMAIN last.pre.hospitals = {}
    /\ DOMAIN last.pre.admins = {}
    /\ DOMAIN last.pre.verifications = {}

\* the last request presented the code of a pending, unexpired record with
\* attempts to spare
RedeemedInTime ==
    /\ OnRecord
    /\ ~last.pre.isUsed
    /\ last.pre.token = last.arg
    /\ last.pre.expiresAt > now
    /\ last.pre.attempts < last.pre.maxAttempts

\* C13: a registration accepted on an empty store leaves tenant HOSP0001
\* pending and unverified, its administrator inactive and unverified, one
\* unused verification record with the code that was mailed, and issues no
\* token; verify-email with that code before it expires activates tenant and
\* administrator, marks the record used and returns a token that protect
\* accepts for that administrator.
C13_RegisterThenVerify ==
    /\ RegisteredOnEmptyStore =>
          /\ Cardinality(DOMAIN hospitals) = 1
          /\ \A h \in DOMAIN hospitals :
                /\ hospitals[h].hospitalId = <<"HOSP", 0, 0, 0, 1>>
                /\ hospitals[h].status = "pending"
                /\ ~hospitals[h].isVerified
          /\ Cardinality(DOMAIN admins) = 1
          /\ \A a \in DOMAIN admins :
                /\ admins[a].email = last.email
                /\ admins[a].hospitalId \in DOMAIN hospitals
                /\ ~admins[a].isActive
                /\ ~admins[a].isEmailVerified
          /\ DOMAIN verifications = {last.id}
          /\ verifications[last.id].email = last.email
          /\ verifications[last.id].token = last.arg.code
          /\ ~verifications[last.id].isUsed
          /\ verifications[last.id].metadata.hospitalId \in DOMAIN hospitals
          /\ verifications[last.id].metadata.adminId \in DOMAIN admins
          /\ last.token = NoToken
          /\ sessions = {}
    /\ RedeemedInTime =>
          /\ last.kind = "Success"
          /\ hospitals[last.pre.metadata.hospitalId].status = "active"
          /\ hospitals[last.pre.metadata.hospitalId].isVerified
          /\ admins[last.pre.metadata.adminId].isActive
          /\ admins[last.pre.metadata.adminId].isEmailVerified
          /\ verifications[last.id].isUsed
          /\ last.token \in sessions
          /\ protect(last.token).kind = "Next"
          /\ \A adm \in protect(last.token).req.admin : adm._id = last.pre.metadata.adminId
          /\ protect(last.token).req.admin # {}

C13_Witness ==
    /\ RedeemedInTime
    /\ last.kind = "Success"
    /\ last.pre.attempts = 0
    /\ hospitals[last.pre.metadata.hospitalId].hospitalId = <<"HOSP", 0, 0, 0, 1>>
    /\ hospitals[last.pre.metadata.hospitalId].status = "active"
    /\ Cardinality(DOMAIN hospitals) = 1

\* what the store held before the last registration request
StoreAsBefore ==
    /\ hospitals = last.pre.hospitals
    /\ admins = last.pre.admins
    /\ verifications = last.pre.verifications

\* a stored tenant or administrator already holds one of the identifying
\* values of the last registration request
IdentityTaken(store) ==
    \/ \E h \in DOMAIN store.hospitals :
          \/ store.hospitals[h].email = last.arg.hospitalData.email
          \/ store.hospitals[h].registrationNumber = last.arg.hospitalData.registrationNumber
          \/ store.hospitals[h].licenseNumber = last.arg.hospitalData.licenseNumber
          \/ store.hospitals[h].hospitalNumber = last.arg.hospitalData.hospitalNumber
    \/ \E a \in DOMAIN store.admins : store.admins[a].email = last.arg.adminData.email

StoreNow == [hospitals |-> hospitals, admins |-> admins, verifications |-> verifications]

\* C14: when the verification mail cannot be sent, the registration is
\* answered EmailDispatchFailed and the tenant, the administrator and the
\* verification record it had saved are deleted again: the store is as it
\* was before the request, holds none of the three, and the same identity
\* is free to be registered again (nothing in the store would make the
\* same request a Conflict).
C14_DispatchFailureRollsBack ==
    (IsRegister /\ last.kind = "EmailDispatchFailed") =>
        /\ StoreAsBefore
        /\ oid.hospital \notin DOMAIN hospitals
        /\ oid.admin \notin DOMAIN admins
        /\ oid.verification \notin DOMAIN verifications
        /\ ~IdentityTaken(StoreNow)
        /\ last.token = NoToken

\* a registration that failed on the mail while another tenant was stored
C14_Witness ==
    /\ IsRegister /\ last.kind = "EmailDispatchFailed"
    /\ Cardinality(DOMAIN hospitals) = 1
    /\ oid.hospital = 2

\* C15: a registration whose tenant email, registrationNumber,
\* licenseNumber or hospitalNumber equals that of a stored tenant, or whose
\* administrator email equals that of a stored administrator, is answered
\* Conflict and writes nothing.
C15_DuplicateIdentityConflicts ==
    (IsRegister /\ IdentityTaken(last.pre)) =>
        /\ last.kind = "Conflict"
        /\ StoreAsBefore
        /\ last.token = NoToken

\* a second registration that repeats only the hospitalNumber of the first
C15_Witness ==
    /\ IsRegister /\ last.kind = "Conflict"
    /\ last.arg.adminData.email = "a2@x"
    /\ \E h \in DOMAIN hospitals :
          /\ hospitals[h].hospitalNumber = last.arg.hospitalData.hospitalNumber
          /\ hospitals[h].email # last.arg.hospitalData.email
          /\ hospitals[h].registrationNumber # last.arg.hospitalData.registrationNumber
          /\ hospitals[h].licenseNumber # last.arg.hospitalData.licenseNumber

TenantActivated(h) == hospitals[h].status = "active" /\ hospitals[h].isVerified
AdminActivated(a) == admins[a].isActive /\ admins[a].isEmailVerified

\* C17 as stated: activation is all-or-nothing: in every state verify-email
\* can leave, also when one of its saves fails, a tenant is (active,
\* verified) exactly when its administrator is (active, verified).
C17_AllOrNothing ==
    \A a \in DOMAIN admins :
        admins[a].hospitalId \in DOMAIN hospitals =>
            (TenantActivated(admins[a].hospitalId) <=> AdminActivated(a))

\* what the code does: the three saves are separate writes, and a request
\* whose second save fails leaves the tenant activated and the
\* administrator not
C17_Reached ==
    /\ IsVerifyEmail /\ last.kind = "Unexpected" /\ last.id # Null
    /\ TenantActivated(last.pre.metadata.hospitalId)
    /\ ~AdminActivated(last.pre.metadata.adminId)
    /\ ~verifications[last.id].isUsed

---------------------------------------------------------------------------
(* Token issuance to administrators, checked under SpecLogin.              *)

\* the last request handed a session token to an administrator
AdminTokenIssued ==
    /\ last.op \in {"adminLogin", "verifyEmail"}
    /\ last.token # NoToken

\* C16: whenever admin login or verify-email issues a session token, the
\* administrator it names is active and email-verified and the tenant is
\* active in the state the token is issued in.
C16_TokenOnlyInGoodStanding ==
    AdminTokenIssued =>
        /\ last.kind = "Success"
        /\ last.token.adminId \in DOMAIN admins
        /\ admins[last.token.adminId].isActive
        /\ admins[last.token.adminId].isEmailVerified
        /\ last.token.hospitalId = admins[last.token.adminId].hospitalId
        /\ last.token.hospitalId \in DOMAIN hospitals
        /\ hospitals[last.token.hospitalId].status = "active"

\* a login that succeeds for an administrator who has logged in before
C16_Witness ==
    /\ AdminTokenIssued
    /\ last.op = "adminLogin"
    /\ last.pre.lastLoginAt # Null
    /\ hospitals[last.token.hospitalId].status = "active"

---------------------------------------------------------------------------
(* Tenant scoping of the staff routes, checked under SpecScope.            *)

IsStaffChange == last.op \in {"updateStaff", "deleteStaff", "resetStaffPassword"}

\* the last request came from an authenticated administrator and addressed
\* a stored staff record
AdminOnStoredRecord ==
    /\ IsStaffChange
    /\ last.req.admin # {}
    /\ last.id \in DOMAIN last.pre

OnForeignRecord ==
    AdminOnStoredRecord /\ last.pre[last.id].hospitalId # last.token.hospitalId

\* the body of the last request passes the route's validators
WellFormed ==
    (last.op = "updateStaff" /\ "isActive" \in DOMAIN last.arg) => isBoolean(last.arg.isActive)

OnOwnEmailRecord ==
    /\ AdminOnStoredRecord
    /\ last.pre[last.id].hospitalId = last.token.hospitalId
    /\ \A admin \in last.req.admin : last.pre[last.id].email = admin.email

\* the last request asks for the record to be deactivated or deleted
AsksToRemove ==
    \/ last.op = "deleteStaff"
    \/ /\ last.op = "updateStaff"
       /\ "isActive" \in DOMAIN last.arg
       /\ isBoolean(last.arg.isActive)
       /\ ~castBoolean(last.arg.isActive)

\* C19 as stated: an administrator's request to deactivate or delete the
\* staff record that carries the administrator's own email is refused
\* (InvalidOperation) and the record stays as it was.
C19_NoSelfRemoval ==
    (OnOwnEmailRecord /\ AsksToRemove) =>
        /\ last.kind \in {"CannotDeactivateSelf", "CannotDeleteSelf"}
        /\ users = last.pre

\* what the code does: isActive sent as the string "false" passes the
\* validator, is not === false, and is stored as false
C19_Reached ==
    /\ OnOwnEmailRecord
    /\ last.op = "updateStaff"
    /\ last.arg.isActive = JsonString("false")
    /\ last.kind = "Updated"
    /\ last.pre[last.id].isActive
    /\ ~users[last.id].isActive

\* the refusal holds for the delete and for the JSON boolean false
C19_StrictFalseRefused ==
    (OnOwnEmailRecord /\ (last.op = "deleteStaff" \/ (last.op = "updateStaff" /\ StrictlyFalse(last.arg.isActive)))) =>
        /\ last.kind \in {"CannotDeactivateSelf", "CannotDeleteSelf"}
        /\ users = last.pre

---------------------------------------------------------------------------
(* Staff invitation, checked under SpecRoster.                             *)

InvitationFailed == last.op = "createStaff" /\ last.kind = "EmailDispatchFailed"

\* C20: when the invitation mail cannot be sent, createStaff deletes the
\* staff record it had saved and answers EmailDispatchFailed: the staff
\* records are those stored before the request, and none carries the
\* email of the request.
C20_InvitationFailureRollsBack ==
    InvitationFailed =>
        /\ users = last.pre
        /\ oid.user \notin DOMAIN users
        /\ \A u \in DOMAIN users : users[u].email # last.arg.email

\* the record had been given an id, and is gone
C20_Witness ==
    /\ InvitationFailed
    /\ last.req.admin # {}
    /\ oid.user = Cardinality(DOMAIN last.pre) + 1
    /\ DOMAIN users = DOMAIN last.pre
    /\ \E u \in DOMAIN users : users[u].hospitalId = last.token.hospitalId

---------------------------------------------------------------------------
(* Reissue of the verification code, checked under SpecResend.             *)

IsResend == last.op = "resendVerification"

\* the unused hospital_registration records of an email
UnusedRecords(email) ==
    {v \in DOMAIN verifications :
        /\ verifications[v].email = email
        /\ verifications[v].type = "hospital_registration"
        /\ ~verifications[v].isUsed}

\* the administrator the record of the last request is linked to is
\* email-verified
LinkedAdminVerified ==
    /\ last.pre.metadata.adminId \in DOMAIN admins
    /\ admins[last.pre.metadata.adminId].isEmailVerified

\* C21: resend-verification answers NotFound exactly when the email has no
\* unused hospital_registration record; when the linked administrator is
\* already email-verified it answers AlreadyVerified and leaves the record
\* as it was; otherwise the same record gets the new code, an expiry of
\* now + 10 min, attempts 0 and isBlocked false, the new code is redeemable
\* and the code it replaced is not.
C21_Reissue ==
    IsResend =>
        /\ (last.kind = "NotFound") <=> (UnusedRecords(last.email) = {})
        /\ (last.kind = "NotFound") <=> (last.id = Null)
        /\ last.id # Null =>
              /\ last.id \in UnusedRecords(last.email)
              /\ IF LinkedAdminVerified
                 THEN /\ last.kind = "AlreadyVerified"
                      /\ verifications[last.id] = last.pre
                 ELSE /\ last.kind \in {"Resent", "Unexpected"}
                      /\ verifications[last.id] =
                            [last.pre EXCEPT !.token = last.arg,
                                             !.expiresAt = now + VerificationExpiry,
                                             !.attempts = 0,
                                             !.isBlocked = FALSE]
                      /\ FindRedeemable(last.email, last.arg) = {last.id}
                      /\ ~AttemptsExhausted(verifications[last.id])
                      /\ last.pre.token # last.arg =>
                            FindRedeemable(last.email, last.pre.token) = {}

\* a blocked, expired record that was given a different code
C21_Witness ==
    /\ IsResend /\ last.kind = "Resent"
    /\ last.pre.isBlocked
    /\ last.pre.attempts >= VerificationMaxAttempts
    /\ last.pre.expiresAt <= now
    /\ last.pre.token # last.arg
    /\ ~verifications[last.id].isBlocked

\* the record was left unused by a verify-email whose last save failed
C21_AlreadyVerifiedReached ==
    /\ IsResend /\ last.kind = "AlreadyVerified"
    /\ verifications[last.id] = last.pre

---------------------------------------------------------------------------
(* Login attempts during the lock, checked under SpecLogin.                *)

\* C22: an admin login made while the account is locked is answered
\* AccountLocked whether the password is right or wrong, issues no token,
\* and leaves the administrator record, loginAttempts and lockUntil
\* included, exactly as it was.
C22_LockedAttemptChangesNothing ==
    (IsAdminLogin /\ WasLocked) =>
        /\ last.kind = "AccountLocked"
        /\ last.token = NoToken
        /\ admins[last.id] = last.pre
        /\ admins[last.id].loginAttempts = last.pre.loginAttempts
        /\ admins[last.id].lockUntil = last.pre.lockUntil

\* a wrong password presented during the lock
C22_Witness ==
    /\ IsAdminLogin /\ WasLocked /\ ~PasswordMatched
    /\ last.kind = "AccountLocked"
    /\ admins[last.id].loginAttempts = MaxLoginAttempts
    /\ admins[last.id].lockUntil > now

---------------------------------------------------------------------------
(* Attempt budget and attempt counting of verify-email, checked under      *)
(* Spec.                                                                   *)

\* the last verify-email request met a pending (unused, unexpired) record
OnPendingRecord == OnRecord /\ ~last.pre.isUsed /\ last.pre.expiresAt > now

BudgetSpent == last.pre.attempts >= last.pre.maxAttempts

\* C23 as stated: on a pending record whose attempts have reached
\* maxAttempts, verify-email is answered TooManyAttempts for a correct and
\* for a wrong code alike.
C23_BudgetBeforeCode ==
    (OnPendingRecord /\ BudgetSpent) => last.kind = "TooManyAttempts"

\* what the code does: the budget is looked at only after the lookup by
\* (email, code) has matched; a wrong code on a spent record is answered
\* InvalidToken and counted once more
C23_Reached ==
    /\ OnPendingRecord /\ BudgetSpent
    /\ last.arg # last.pre.token
    /\ last.kind = "InvalidToken"
    /\ verifications[last.id].attempts = last.pre.attempts + 1

\* with the correct code the spent budget is answered TooManyAttempts
C23_CorrectCodeRefused ==
    (OnPendingRecord /\ BudgetSpent /\ last.arg = last.pre.token) =>
        last.kind = "TooManyAttempts"

\* C24: a wrong code on a pending record is answered InvalidToken, adds
\* exactly one to the record's attempts and sets isBlocked once attempts has
\* reached maxAttempts, leaving the rest of the record alone; a successful
\* redemption sets isUsed and usedAt and leaves attempts as it was.
C24_AttemptCounting ==
    /\ (OnPendingRecord /\ last.arg # last.pre.token) =>
          /\ last.kind = "InvalidToken"
          /\ verifications[last.id].attempts = last.pre.attempts + 1
          /\ verifications[last.id].isBlocked =
                (last.pre.isBlocked \/ last.pre.attempts + 1 >= last.pre.maxAttempts)
          /\ ~verifications[last.id].isUsed
          /\ verifications[last.id].token = last.pre.token
          /\ verifications[last.id].expiresAt = last.pre.expiresAt
          /\ last.token = NoToken
    /\ (OnRecord /\ last.kind = "Success") =>
          /\ verifications[last.id].isUsed
          /\ verifications[last.id].usedAt = now
          /\ verifications[last.id].attempts = last.pre.attempts
          /\ verifications[last.id].isBlocked = last.pre.isBlocked

\* the wrong code that uses up the budget
C24_Witness ==
    /\ OnPendingRecord /\ last.arg # last.pre.token
    /\ last.pre.attempts + 1 = last.pre.maxAttempts
    /\ ~last.pre.isBlocked
    /\ verifications[last.id].isBlocked

\* a redemption after some wrong codes
C24_RedeemedAfterFailures ==
    /\ OnRecord /\ last.kind = "Success"
    /\ last.pre.attempts > 0
    /\ verifications[last.id].attempts = last.pre.attempts

---------------------------------------------------------------------------
(* requirePermission against the rule of checkPermission, checked under    *)
(* SpecRequire.                                                            *)

\* the last request reached requirePermission as a staff member
StaffDecided ==
    /\ last.op = "requirePermission"
    /\ last.req.user # {}
    /\ last.token.userId # Null

\* the rule of the Authorization Evaluator on the stored permission set
AllowedByEntries ==
    \E entry \in users[last.token.userId].permissions :
        /\ entry.module = last.arg.module
        /\ {last.arg.action, "manage"} \cap entry.actions # {}

\* C25 as stated: requirePermission lets a staff member through exactly
\* when some entry of its permission set names the module and lists the
\* action or 'manage'; the role alone grants nothing.
C25_SameRuleAsEvaluator ==
    StaffDecided => (last.kind = "Next" <=> AllowedByEntries)

\* what the code does: 'manage' is no wildcard ...
C25_Reached ==
    /\ StaffDecided
    /\ users[last.token.userId].role = "doctor"
    /\ users[last.token.userId].permissions = {[module |-> "billing", actions |-> {"manage"}]}
    /\ last.arg = [module |-> "billing", action |-> "read"]
    /\ last.kind = "Forbidden"

\* ... and a staff member whose role is 'admin' passes with no entry at all
C25_RoleAdminPasses ==
    /\ StaffDecided
    /\ users[last.token.userId].role = "admin"
    /\ users[last.token.userId].permissions = {}
    /\ last.kind = "Next"

---------------------------------------------------------------------------
(* optionalAuth and the tenant, checked under SpecOptional.                *)

IsOptionalAuth == last.op = "optionalAuth"

PrincipalAttached == last.req.admin # {} \/ last.req.user # {} \/ last.req.staffUser # {}

\* C26 as stated: optionalAuth attaches a principal only when the tenant
\* of the token is active in the store.
C26_OptionalAuthChecksTenant ==
    (IsOptionalAuth /\ PrincipalAttached) =>
        /\ last.token.hospitalId \in DOMAIN hospitals
        /\ hospitals[last.token.hospitalId].status = "active"

\* what the code does: the principal of a suspended tenant is attached
C26_Reached ==
    /\ IsOptionalAuth
    /\ last.req.staffUser # {}
    /\ hospitals[last.token.hospitalId].status = "suspended"
    /\ protect(last.token).kind = "TenantInactive"

\* the principal's own flags and the token are re-checked
C26_PrincipalRechecked ==
    (IsOptionalAuth /\ PrincipalAttached) =>
        /\ ValidToken(last.token)
        /\ last.token.adminId # Null =>
              admins[last.token.adminId].isActive /\ admins[last.token.adminId].isEmailVerified
        /\ last.token.userId # Null => users[last.token.userId].isActive

---------------------------------------------------------------------------
(* What the staff routes write to a record, checked under SpecUpdate.      *)

\* the tenant a staff record was created in: that of the administrator
\* who created it
TenantOfCreation(u) == admins[users[u].createdBy].hospitalId

\* C27 as stated: no sequence of operations moves a staff record out of
\* the tenant it was created in; updateStaff leaves hospitalId alone
\* whatever the body carries.
C27_TenantNeverChanges ==
    \A u \in DOMAIN users : users[u].hospitalId = TenantOfCreation(u)

\* what the code does: the body is handed to findByIdAndUpdate as it came,
\* and a hospitalId in it replaces the stored one
C27_Reached ==
    /\ last.op = "updateStaff" /\ last.kind = "Updated"
    /\ last.arg = [hospitalId |-> 2]
    /\ last.pre[last.id].hospitalId = 1
    /\ last.token.hospitalId = 1
    /\ users[last.id].hospitalId = 2

\* a value bcryptHash produced
IsDigest(password) == Len(password) = 2 /\ password[1] = "bcrypt"

\* C28 as stated: after any sequence of createStaff, updateStaff,
\* resetStaffPassword and change-password the password stored on every
\* staff record is a hash.
C28_PasswordAlwaysHashed ==
    \A u \in DOMAIN users : IsDigest(users[u].password)

\* what the code does: a password in the body of updateStaff is stored as
\* it was sent
C28_Reached ==
    /\ last.op = "updateStaff" /\ last.kind = "Updated"
    /\ "password" \in DOMAIN last.arg
    /\ IsDigest(last.pre[last.id].password)
    /\ users[last.id].password = castString(last.arg.password)

\* createStaff, resetStaffPassword and change-password store a hash
C28_SavedThroughHook ==
    (/\ last.op \in {"createStaff", "resetStaffPassword", "changePassword"}
     /\ last.kind \in {"Created", "PasswordReset", "EmailDispatchFailed", "PasswordChanged"}
     /\ last.id \in DOMAIN users) =>
        /\ IsDigest(users[last.id].password)
        /\ last.op = "changePassword" => users[last.id].password = bcryptHash(last.arg)

C28_ChangedByStaff ==
    /\ last.op = "changePassword" /\ last.kind = "PasswordChanged"
    /\ users[last.id].password = bcryptHash(last.arg)

---------------------------------------------------------------------------
(* Interleaved requests.                                                   *)
(* A handler runs from one await to the next without interruption; other   *)
(* requests run in between.  The handlers below are cut at the await that  *)
(* follows their first read: the first step reads the store into the       *)
(* handler's own copy of the document, the second step works on that copy  *)
(* and saves it.                                                           *)

MaxInflight == 2            \* requests that have read and not yet answered

RequestIds == 1..MaxInflight

\* what a handler holds across its await: the request and the document it loaded
Loaded(op, email, arg, id, doc) == [op |-> op, email |-> email, arg |-> arg, id |-> id, doc |-> doc]

\* document.save(): the paths the handler changed on its copy are $set on the
\* stored document; the other paths of the stored document stay as they are
SaveModified(stored, loaded, changed) ==
    [f \in DOMAIN stored |-> IF changed[f] # loaded[f] THEN changed[f] ELSE stored[f]]

\* POST /api/admin/login, up to "await bcrypt.compare": the account is read
\* and the lock is checked; an unknown or locked account is answered at once
LoginBegin(r, email, password, clientIP) ==
    LET found == {a \in DOMAIN admins : admins[a].email = email} IN
    /\ r \notin DOMAIN inflight
    /\ \/ /\ \A a \in found : isLocked(admins[a])
          /\ AdminLogin(email, password, clientIP)
       \/ \E a \in found :
          /\ ~isLocked(admins[a])
          /\ inflight' = Put(inflight, r,
                             Loaded("adminLogin", email, LoginArg(password, clientIP), a, admins[a]))
          /\ UNCHANGED <<now, ticks, oid, hospitals, admins, verifications, users, sessions,
                         redeemed, last>>

\* POST /api/admin/login, from the password comparison to the answer.
\* "pre" of the answer is the stored document as the save found it.
LoginEnd(r) ==
    /\ r \in DOMAIN inflight
    /\ inflight[r].op = "adminLogin"
    /\ LET q == inflight[r]
           a == q.id
           adm == q.doc
           h == adm.hospitalId
           R(kind) == Resp("adminLogin", kind, q.email, q.arg, a, admins[a], NoToken)
       IN
       /\ inflight' = [x \in DOMAIN inflight \ {r} |-> inflight[x]]
       /\ UNCHANGED <<now, ticks, oid, hospitals, verifications, users, redeemed>>
       /\ IF ~bcryptCompare(q.arg.password, adm.password)
          THEN /\ adm.loginAttempts < MaxCounter
               /\ admins' = [admins EXCEPT ![a] = SaveModified(@, adm, RecordFailedLogin(adm))]
               /\ last' = R("InvalidCredentials")
               /\ UNCHANGED sessions
          ELSE IF ~adm.isActive
          THEN /\ last' = R("AccountInactive")
               /\ UNCHANGED <<admins, sessions>>
          ELSE IF ~adm.isEmailVerified
          THEN /\ last' = R("EmailNotVerified")
               /\ UNCHANGED <<admins, sessions>>
          ELSE IF h \notin DOMAIN hospitals \/ hospitals[h].status # "active"
          THEN /\ last' = R("TenantInactive")
               /\ UNCHANGED <<admins, sessions>>
          ELSE LET token == AdminToken(a, adm, h) IN
               /\ admins' = [admins EXCEPT
                                ![a] = SaveModified(@, adm, ResetLoginAttempts(adm, q.arg.ip))]
               /\ last' = Resp("adminLogin", "Success", q.email, q.arg, a, admins[a], token)
               /\ sessions' = Keep(token)

\* POST /api/hospital/verify-email, up to "await Hospital.findById": the
\* unused, unexpired record is read and its attempt budget checked; a code
\* that matches no such record, or a spent budget, is answered at once
VerifyBegin(r, email, token) ==
    /\ r \notin DOMAIN inflight
    /\ \/ /\ \A v \in FindRedeemable(email, token) : AttemptsExhausted(verifications[v])
          /\ VerifyEmail(email, token)
       \/ \E v \in FindRedeemable(email, token) :
          /\ ~AttemptsExhausted(verifications[v])
          /\ inflight' = Put(inflight, r, Loaded("verifyEmail", email, token, v, verifications[v]))
          /\ UNCHANGED <<now, ticks, oid, hospitals, admins, verifications, users, sessions,
                         redeemed, last>>

\* POST /api/hospital/verify-email, from the tenant and administrator
\* lookups to the answer.  "pre" of the answer is the stored verification
\* record as the save found it.
VerifyEnd(r) ==
    /\ r \in DOMAIN inflight
    /\ inflight[r].op = "verifyEmail"
    /\ LET q == inflight[r]
           v == q.id
           ver == q.doc
           h == ver.metadata.hospitalId
           a == ver.metadata.adminId
       IN
       /\ inflight' = [x \in DOMAIN inflight \ {r} |-> inflight[x]]
       /\ UNCHANGED <<now, ticks, oid, users>>
       /\ IF findById(hospitals, h) = {} \/ findById(admins, a) = {}
          THEN /\ last' = Resp("verifyEmail", "NotFound", q.email, q.arg, v, verifications[v], NoToken)
               /\ UNCHANGED <<hospitals, admins, verifications, sessions, redeemed>>
          ELSE LET jwtToken == AdminToken(a, admins[a], h) IN
               /\ hospitals' = [hospitals EXCEPT ![h] = ActivateHospital(@)]
               /\ admins' = [admins EXCEPT ![a] = ActivateAdmin(@)]
               /\ verifications' = [verifications EXCEPT ![v] = SaveModified(@, ver, MarkUsed(ver))]
               /\ sessions' = Keep(jwtToken)
               /\ redeemed' = Redeem(v, q.email, q.arg)
               /\ last' = Resp("verifyEmail", "Success", q.email, q.arg, v, verifications[v], jwtToken)

\* The state in which register-with-verification leaves a tenant: pending,
\* its administrator inactive, the verification code mailed and unused.
InitRace ==
    \E hd \in HospitalData, ad \in AdminData, code \in RegistrationCodes :
        /\ now = 0
        /\ ticks = 0
        /\ oid = [hospital |-> 1, admin |-> 1, verification |-> 1, user |-> 0]
        /\ hospitals = Put(Empty, 1, NewHospital(1, hd, GenerateHospitalId(0)))
        /\ admins = Put(Empty, 1, NewAdmin(1, ad, 1))
        /\ verifications = Put(Empty, 1, preSaveVerification(NewEmailVerification(1, ad, code, 1, 1)))
        /\ users = Empty
        /\ sessions = {}
        /\ redeemed = Empty
        /\ inflight = Empty
        /\ last = Resp("register", "VerificationRequired", ad.email,
                       [hospitalData |-> hd, adminData |-> ad, code |-> code], 1,
                       [hospitals |-> Empty, admins |-> Empty, verifications |-> Empty], NoToken)

\* Interleaved requests: the administrator's code is redeemed and the
\* administrator logs in, several requests at a time.
NextRace ==
    \/ \E r \in RequestIds, email \in Emails, password \in Passwords, ip \in ClientIPs :
          LoginBegin(r, email, password, ip)
    \/ \E r \in RequestIds : LoginEnd(r)
    \/ \E r \in RequestIds, email \in Emails, code \in Codes : VerifyBegin(r, email, code)
    \/ \E r \in RequestIds : VerifyEnd(r)

SpecRace == InitRace /\ [][NextRace]_vars

---------------------------------------------------------------------------
(* Properties of interleaved requests (checked under SpecRace).            *)

\* the request in "last" is a login that was answered with a failed
\* password match on an existing account
FailedLoginAnswered ==
    /\ last.op = "adminLogin"
    /\ last.kind = "InvalidCredentials"
    /\ last.id # Null

\* C29: every wrong-password login that completes is counted, whatever
\* other login requests for the same administrator are in progress: its
\* save leaves the stored loginAttempts one above the value the save found.
C29_EveryFailureCounted ==
    FailedLoginAnswered => admins[last.id].loginAttempts = last.pre.loginAttempts + 1

\* a wrong-password login has completed while another request was in progress
C29_Reached == FailedLoginAnswered /\ inflight # Empty

\* C29 (lost lock): a wrong-password login that finds the stored counter one
\* short of the limit leaves the account locked
C29_LimitLocks ==
    (FailedLoginAnswered /\ last.pre.loginAttempts + 1 >= MaxLoginAttempts)
        => admins[last.id].lockUntil # Null

\* the request in "last" is a verify-email request that addressed a record
VerifyAnswered == last.op = "verifyEmail" /\ last.id # Null

\* C30: of the verify-email requests that present the correct code of one
\* record, in whatever order their steps run, at most one succeeds, and a
\* request that completes on a record already marked used is answered
\* AlreadyUsed.
C30_OneWinner ==
    /\ \A v \in DOMAIN redeemed : redeemed[v].count < 2
    /\ (VerifyAnswered /\ last.pre.isUsed) => last.kind = "AlreadyUsed"

\* a verify-email request has succeeded while another one held the same record
C30_Reached ==
    /\ VerifyAnswered
    /\ last.kind = "Success"
    /\ \E r \in DOMAIN inflight : inflight[r].op = "verifyEmail" /\ inflight[r].id = last.id

---------------------------------------------------------------------------
(* Properties of hiring and dismissal (checked under SpecRoster).          *)

\* the last request was a createStaff whose save was refused by a unique index
CreateRefusedByIndex == last.op = "createStaff" /\ last.kind = "Unexpected"

\* the employeeId the last createStaff generated: the role prefix and the
\* number of the tenant's staff stored when it ran, plus one
GeneratedEmployeeId ==
    EmployeeCode(last.arg.role, Cardinality(TenantStaffBefore(last.token.hospitalId)) + 1)

\* C33: after any sequence of createStaff and deleteStaff in a tenant,
\* createStaff generates an employeeId that no staff member of that tenant
\* holds: a save refused by a unique index is never refused on account of a
\* colleague in the administrator's own tenant holding the generated id.
C33_FreshInTenant ==
    CreateRefusedByIndex =>
        \A u \in TenantStaffBefore(last.token.hospitalId) :
            last.pre[u].employeeId # GeneratedEmployeeId

\* a createStaff was refused although nobody in any other tenant holds the
\* generated id, after a dismissal in the store
C33_Reached ==
    /\ CreateRefusedByIndex
    /\ ~NobodyDismissed
    /\ \A u \in DOMAIN last.pre :
          last.pre[u].hospitalId # last.token.hospitalId
              => last.pre[u].employeeId # GeneratedEmployeeId

---------------------------------------------------------------------------
(* Staff management requested with staff sessions.                         *)

\* GET /api/users: the staff of the administrator's tenant
\* (variant: the principal check is left out and every staff record is listed)
ListStaff_open(token) ==
    LET p == protect(token)
        R(kind, found) == [Resp("listStaff", kind, token.email, found, Null, Null, token)
                             EXCEPT !.req = p.req]
    IN
    /\ UNCHANGED <<now, ticks, oid, hospitals, admins, verifications, users, sessions,
                   redeemed, inflight>>
    /\ IF p.kind # "Next"
       THEN last' = R(p.kind, {})
       ELSE last' = R("Listed", DOMAIN users)

ListStaff(token) ==
    LET p == protect(token)
        R(kind, found) == [Resp("listStaff", kind, token.email, found, Null, Null, token)
                             EXCEPT !.req = p.req]
    IN
    /\ UNCHANGED <<now, ticks, oid, hospitals, admins, verifications, users, sessions,
                   redeemed, inflight>>
    /\ IF p.kind # "Next"
       THEN last' = R(p.kind, {})
       ELSE IF p.req.admin = {}
       THEN last' = R("AdminRequired", {})
       ELSE \E hospital \in p.req.hospital :
            last' = R("Listed", {u \in DOMAIN users : users[u].hospitalId = hospital._id})

\* req.body of POST /api/users and of PUT /api/users/:id: staff of role
\* 'admin', and staff given a permission entry
ReservedBodies == [email : StaffEmails, role : {"doctor", "admin"}]
ReservedUpdates ==
    {[role |-> "admin"], [permissions |-> {[module |-> "billing", actions |-> {"manage"}]}]}

\* Administrators and staff members sending the staff-management requests.
NextReserved ==
    \/ \E token \in sessions : ListStaff(token)
    \/ \E token \in sessions, body \in ReservedBodies, pw \in TemporaryPasswords :
          CreateStaff(token, body, pw, TRUE)
    \/ \E token \in sessions, id \in StaffIds, updateData \in ReservedUpdates :
          UpdateStaff(token, id, updateData)
    \/ \E token \in sessions, id \in StaffIds : DeleteStaff(token, id)
    \/ \E token \in sessions, id \in StaffIds, pw \in ResetPasswords :
          ResetStaffPassword(token, id, pw, TRUE)
    \/ \E email \in StaffEmails, password \in TemporaryPasswords \cup ResetPasswords :
          StaffLogin(email, password)

SpecReserved == InitRoster /\ [][NextReserved]_vars

---------------------------------------------------------------------------
(* Properties of staff management requested with staff sessions (checked   *)
(* under SpecReserved).                                                    *)

StaffManagementOps ==
    {"listStaff", "createStaff", "updateStaff", "deleteStaff", "resetStaffPassword"}

\* the answers with which a request is turned away before the handler acts
TurnedAway ==
    {"AdminRequired", "NotAuthorized", "InvalidToken", "TokenExpired", "AccountInactive",
     "EmailNotVerified", "TenantInactive"}

\* C34: a staff-management request (list, create, update, delete,
\* reset-password) sent with a staff session token is answered with the
\* administrator-required rejection (or turned away by protect) and leaves
\* every staff record as it was, whatever the staff member's role and
\* permissions.
C34_ReservedToAdministrators ==
    [][(last'.op \in StaffManagementOps /\ last'.token.userId # Null)
          => (last'.kind \in TurnedAway /\ users' = users)]_vars

\* a staff member of role 'admin' holding a permission entry has sent a
\* staff-management request with a valid session and was refused
C34_Witness ==
    /\ last.op \in StaffManagementOps
    /\ last.token.userId # Null
    /\ last.kind = "AdminRequired"
    /\ last.req.user # {}
    /\ \E u \in DOMAIN users :
          /\ u = last.token.userId
          /\ users[u].role = "admin"
          /\ users[u].permissions # {}

---------------------------------------------------------------------------
(* Properties of the password reset (checked under SpecUpdate).            *)

\* the last request was a reset-password that found the staff record and
\* whose notification mail failed
ResetMailFailed == last.op = "resetStaffPassword" /\ last.kind = "EmailDispatchFailed"

\* the passwords a client can present at the staff login
KnownPasswords == TemporaryPasswords \cup ResetPasswords \cup ClientPasswords

\* C38: when the notification mail of resetStaffPassword fails, the request
\* is answered EmailDispatchFailed and the generated password stays the
\* stored credential: it is the only password that authenticates the staff
\* member, so a previous password that differs from it no longer does.
C38_NoRollbackOfReset ==
    ResetMailFailed =>
        /\ users[last.id].password = bcryptHash(last.arg)
        /\ \A pw \in KnownPasswords : comparePassword(users[last.id], pw) <=> pw = last.arg

\* a reset whose mail failed has replaced a credential that authenticated
\* with the invitation password
C38_Witness ==
    /\ ResetMailFailed
    /\ \E pw \in TemporaryPasswords :
          /\ comparePassword(last.pre[last.id], pw)
          /\ ~comparePassword(users[last.id], pw)

---------------------------------------------------------------------------
(* Further properties of admin login (checked under SpecLogin).            *)

\* the answer in "last" hands an administrator a session token
AdminSessionIssued ==
    /\ last.op \in {"adminLogin", "verifyEmail"}
    /\ last.kind = "Success"

\* C35: no session token is issued to an administrator whose account is
\* locked (lockUntil > now), by admin login or by verify-email.
C35_NoTokenWhileLocked ==
    AdminSessionIssued => ~isLocked(admins[last.token.adminId])

\* an admin login has succeeded on an account whose lock had run out
C35_LoginReached ==
    /\ AdminSessionIssued /\ last.op = "adminLogin"
    /\ last.pre.lockUntil # Null

\* what the code does: admin login never issues a token on a locked account
C35_LoginNeverWhileLocked ==
    (AdminSessionIssued /\ last.op = "adminLogin") =>
        /\ ~WasLocked
        /\ ~isLocked(admins[last.id])

\* the lock of the account had run out when the request in "last" arrived
LockHadRunOut == last.pre.lockUntil # Null /\ last.pre.lockUntil <= now

\* C36: a lock that runs out leaves the counter alone: while no login has
\* succeeded since, loginAttempts still stands at maxAttempts or more, and one
\* further wrong password is counted and locks the account again for the
\* full lock duration.
C36_ExpiredLockKeepsCounter ==
    /\ \A a \in DOMAIN admins :
          admins[a].lockUntil # Null => admins[a].loginAttempts >= MaxLoginAttempts
    /\ (IsAdminLogin /\ LockHadRunOut /\ ~PasswordMatched) =>
          /\ last.kind = "InvalidCredentials"
          /\ admins[last.id].loginAttempts = last.pre.loginAttempts + 1
          /\ admins[last.id].lockUntil = now + LockDuration
          /\ isLocked(admins[last.id])

\* one wrong password after the lock ran out has locked the account again
C36_Witness ==
    /\ IsAdminLogin /\ LockHadRunOut /\ ~PasswordMatched
    /\ last.pre.loginAttempts = MaxLoginAttempts
    /\ last.pre.lockUntil = now
    /\ admins[last.id].lockUntil = now + LockDuration

\* the answers that tell the client the state of the account or its tenant
StandingAnswers == {"AccountInactive", "EmailNotVerified", "TenantInactive"}

\* C37: admin login answers AccountInactive, EmailNotVerified or
\* TenantInactive only when the password matched, and then leaves
\* loginAttempts and lockUntil as they were; a wrong password on an unlocked
\* account is answered InvalidCredentials and counted, whatever the
\* account's activation, verification and tenant state.
C37_PasswordBeforeStanding ==
    IsAdminLogin =>
        /\ last.kind \in StandingAnswers =>
              /\ PasswordMatched
              /\ admins[last.id].loginAttempts = last.pre.loginAttempts
              /\ admins[last.id].lockUntil = last.pre.lockUntil
        /\ (~WasLocked /\ ~PasswordMatched) =>
              /\ last.kind = "InvalidCredentials"
              /\ admins[last.id].loginAttempts = last.pre.loginAttempts + 1

\* a wrong password on an active but unverified account was counted
C37_Witness ==
    /\ IsAdminLogin /\ ~WasLocked /\ ~PasswordMatched
    /\ last.pre.isActive /\ ~last.pre.isEmailVerified
    /\ last.kind = "InvalidCredentials"
    /\ admins[last.id].loginAttempts = last.pre.loginAttempts + 1

\* a correct password was refused for the account's standing after earlier
\* failures, and the counter kept its value
C37_RefusedReached ==
    /\ IsAdminLogin /\ PasswordMatched
    /\ last.kind \in StandingAnswers
    /\ last.pre.loginAttempts > 0
    /\ admins[last.id].loginAttempts = last.pre.loginAttempts

---------------------------------------------------------------------------
(* Registrations whose verification record lapses.                         *)

\* Onboarding with the TTL index at work: registrations that repeat an
\* identity field of the first, redemption and reissue of the code that was
\* mailed, the clock.
NextLapse ==
    \/ \E hd \in HospitalData \cup ClashingHospitalData, ad \in RegAdminData,
          code \in RegistrationCodes :
          Register(hd, ad, code, TRUE)
    \/ \E email \in Emails, code \in RegistrationCodes : VerifyEmail(email, code)
    \/ \E email \in Emails, code \in RegistrationCodes : ResendVerification(email, code, TRUE)
    \/ Tick
    \/ \E v \in DOMAIN verifications : ExpireVerification(v)

SpecLapse == Init /\ [][NextLapse]_vars

\* the administrators of a tenant
AdminsOf(h) == {a \in DOMAIN admins : admins[a].hospitalId = h}

\* tenant h is pending and no verification record points at it any more
Lapsed(h) ==
    /\ h \in DOMAIN hospitals
    /\ hospitals[h].status = "pending"
    /\ \A v \in DOMAIN verifications : verifications[v].metadata.hospitalId # h

\* a registration body repeats an identity field of tenant h or the email
\* of its administrator
SameIdentity(body, h) ==
    \/ body.hospitalData.email = hospitals[h].email
    \/ body.hospitalData.registrationNumber = hospitals[h].registrationNumber
    \/ body.hospitalData.licenseNumber = hospitals[h].licenseNumber
    \/ body.hospitalData.hospitalNumber = hospitals[h].hospitalNumber
    \/ \E a \in AdminsOf(h) : admins[a].email = body.adminData.email

\* C39: once the verification record of a pending registration is deleted
\* by the TTL index, the tenant stays pending for ever: verify-email for its
\* administrator is answered InvalidToken, resend-verification NotFound, and
\* a registration that repeats its identity Conflict.
C39_LapsedForGood ==
    [][\A h \in DOMAIN hospitals :
          Lapsed(h) =>
              /\ Lapsed(h)'
              /\ \A a \in AdminsOf(h) :
                    /\ (last'.op = "verifyEmail" /\ last'.email = admins[a].email)
                          => last'.kind = "InvalidToken"
                    /\ (last'.op = "resendVerification" /\ last'.email = admins[a].email)
                          => last'.kind = "NotFound"
              /\ (last'.op = "register" /\ SameIdentity(last'.arg, h))
                    => last'.kind = "Conflict"]_vars

\* a registration that repeats only the hospitalNumber of a lapsed tenant
\* has been answered Conflict
C39_Witness ==
    /\ last.op = "register" /\ last.kind = "Conflict"
    /\ \E h \in DOMAIN hospitals :
          /\ Lapsed(h)
          /\ last.arg.hospitalData.hospitalNumber = hospitals[h].hospitalNumber
          /\ last.arg.hospitalData.email # hospitals[h].email
          /\ \A a \in AdminsOf(h) : admins[a].email # last.arg.adminData.email

\* verify-email with the code that was mailed has been refused for a lapsed tenant
C39_VerifyReached ==
    /\ last.op = "verifyEmail" /\ last.kind = "InvalidToken"
    /\ last.arg \in RegistrationCodes
    /\ \E h \in DOMAIN hospitals : Lapsed(h) /\ \E a \in AdminsOf(h) : admins[a].email = last.email

---------------------------------------------------------------------------
(* The block flag of the verification ledger (checked under SpecResend).   *)

\* C40: in every stored state of a verification record, isBlocked is true
\* exactly when attempts >= maxAttempts: the save hook and verify-email set
\* it when the budget is spent, resend-verification clears it only
\* together with attempts.
C40_BlockedIffBudgetSpent ==
    \A v \in DOMAIN verifications :
        verifications[v].isBlocked <=> (verifications[v].attempts >= verifications[v].maxAttempts)

\* the wrong code that spent the budget has set the flag
C40_Witness ==
    /\ last.op = "verifyEmail" /\ last.kind = "InvalidToken" /\ last.id # Null
    /\ ~last.pre.isBlocked
    /\ last.pre.attempts + 1 = last.pre.maxAttempts
    /\ verifications[last.id].isBlocked
    /\ verifications[last.id].attempts = verifications[last.id].maxAttempts

\* resend-verification has cleared the flag of a blocked record together
\* with its attempts
C40_ClearedReached ==
    /\ last.op = "resendVerification" /\ last.id # Null
    /\ last.pre.isBlocked
    /\ ~verifications[last.id].isBlocked
    /\ verifications[last.id].attempts = 0

---------------------------------------------------------------------------
(* Interleaved registrations.                                              *)
(* register-with-verification cut at its awaits: the two existence         *)
(* lookups; countDocuments and the construction of the three documents;    *)
(* the three saves; the mail and the answer.                               *)

\* what a registration holds between its steps
Checked == [phase |-> "checked"]
Built(hospital, admin, verification) ==
    [phase |-> "built", hospital |-> hospital, admin |-> admin, verification |-> verification]

\* req.body of a registration in progress
RegisterBody(hd, ad, code) == [hospitalData |-> hd, adminData |-> ad, code |-> code]

\* register-with-verification, the lookups for an existing hospital and an
\* existing administrator: a clash is answered Conflict at once
RegisterCheck(r, hd, ad, code) ==
    /\ r \notin DOMAIN inflight
    /\ IF ExistingHospital(hd) # {} \/ {a \in DOMAIN admins : admins[a].email = ad.email} # {}
       THEN Register(hd, ad, code, TRUE)
       ELSE /\ inflight' = Put(inflight, r,
                               Loaded("register", ad.email, RegisterBody(hd, ad, code), Null, Checked))
            /\ UNCHANGED <<now, ticks, oid, hospitals, admins, verifications, users, sessions,
                           redeemed, last>>

\* register-with-verification, from Hospital.countDocuments() to the three
\* documents built in memory (their _id is drawn when they are constructed)
RegisterBuild(r) ==
    /\ r \in DOMAIN inflight
    /\ inflight[r].op = "register"
    /\ inflight[r].doc.phase = "checked"
    /\ oid.hospital < MaxRegistrations
    /\ LET q == inflight[r]
           h == oid.hospital + 1
           a == oid.admin + 1
           v == oid.verification + 1
           hospital == NewHospital(h, q.arg.hospitalData,
                                   GenerateHospitalId(Cardinality(DOMAIN hospitals)))
           admin == NewAdmin(a, q.arg.adminData, h)
           emailVerification == NewEmailVerification(v, q.arg.adminData, q.arg.code, h, a)
       IN
       /\ oid' = [oid EXCEPT !.hospital = h, !.admin = a, !.verification = v]
       /\ inflight' = [inflight EXCEPT ![r] = Loaded("register", q.email, q.arg, h,
                                                     Built(hospital, admin, emailVerification))]
    /\ UNCHANGED <<now, ticks, hospitals, admins, verifications, users, sessions, redeemed, last>>

\* register-with-verification, hospital.save(), admin.save() and
\* emailVerification.save(): a save refused by a unique index throws, the
\* catch block answers 500 and what was saved before stays
RegisterSave(r) ==
    /\ r \in DOMAIN inflight
    /\ inflight[r].op = "register"
    /\ inflight[r].doc.phase = "built"
    /\ LET q == inflight[r]
           R(kind) == Resp("register", kind, q.email, q.arg, Null,
                           [hospitals |-> hospitals, admins |-> admins,
                            verifications |-> verifications], NoToken)
       IN
       /\ UNCHANGED <<now, ticks, oid, users, sessions, redeemed>>
       /\ IF ~HospitalUniqueOk(q.doc.hospital)
          THEN /\ last' = R("Unexpected")
               /\ inflight' = Delete(inflight, r)
               /\ UNCHANGED <<hospitals, admins, verifications>>
          ELSE IF ~AdminUniqueOk(q.doc.admin)
          THEN /\ hospitals' = Put(hospitals, q.id, q.doc.hospital)
               /\ last' = R("Unexpected")
               /\ inflight' = Delete(inflight, r)
               /\ UNCHANGED <<admins, verifications>>
          ELSE /\ hospitals' = Put(hospitals, q.id, q.doc.hospital)
               /\ admins' = Put(admins, q.doc.admin._id, q.doc.admin)
               /\ verifications' = Put(verifications, q.doc.verification._id,
                                       preSaveVerification(q.doc.verification))
               /\ inflight' = [inflight EXCEPT ![r].doc.phase = "saved"]
               /\ UNCHANGED last

\* register-with-verification, the mail and the answer: when the mail fails
\* the three documents are deleted again
RegisterEnd(r, emailOk) ==
    /\ r \in DOMAIN inflight
    /\ inflight[r].op = "register"
    /\ inflight[r].doc.phase = "saved"
    /\ LET q == inflight[r]
           R(kind, id) == Resp("register", kind, q.email, q.arg, id,
                               [hospitals |-> hospitals, admins |-> admins,
                                verifications |-> verifications], NoToken)
       IN
       /\ inflight' = Delete(inflight, r)
       /\ UNCHANGED <<now, ticks, oid, users, sessions, redeemed>>
       /\ IF emailOk
          THEN /\ last' = R("VerificationRequired", q.doc.verification._id)
               /\ UNCHANGED <<hospitals, admins, verifications>>
          ELSE /\ hospitals' = Delete(hospitals, q.id)
               /\ admins' = Delete(admins, q.doc.admin._id)
               /\ verifications' = Delete(verifications, q.doc.verification._id)
               /\ last' = R("EmailDispatchFailed", Null)

\* Registrations of two tenants and two administrators, several at a time.
NextEnrol ==
    \/ \E r \in RequestIds, hd \in HospitalData \cup {SecondHospitalData}, ad \in RegAdminData,
          code \in RegistrationCodes :
          RegisterCheck(r, hd, ad, code)
    \/ \E r \in RequestIds : RegisterBuild(r)
    \/ \E r \in RequestIds : RegisterSave(r)
    \/ \E r \in RequestIds, emailOk \in BOOLEAN : RegisterEnd(r, emailOk)

SpecEnrol == Init /\ [][NextEnrol]_vars

---------------------------------------------------------------------------
(* Properties of interleaved registrations (checked under SpecEnrol).      *)

\* the registration request r has built its documents and not yet saved them
AboutToSave(r) == r \in DOMAIN inflight /\ inflight[r].op = "register" /\ inflight[r].doc.phase = "built"

\* no stored tenant or administrator shares an identity field with the body
DistinctIdentity(body) ==
    /\ ExistingHospital(body.hospitalData) = {}
    /\ \A a \in DOMAIN admins : admins[a].email # body.adminData.email

\* C31: whatever the interleaving of registrations with distinct identity
\* fields, the tenantId a registration computed (HOSP + count + 1) is held by
\* no stored tenant when the registration comes to save, so no registration
\* fails on a duplicate tenantId.
C31_TenantIdNeverCollides ==
    \A r \in DOMAIN inflight :
        (AboutToSave(r) /\ DistinctIdentity(inflight[r].arg)) =>
            \A h \in DOMAIN hospitals :
                hospitals[h].hospitalId # inflight[r].doc.hospital.hospitalId

\* a registration whose identity fields clash with no stored record has
\* been answered 500
C31_Reached ==
    /\ last.op = "register" /\ last.kind = "Unexpected"
    /\ DistinctIdentity(last.arg)

\* a registration is still working on tenant h
InProgress(h) == \E r \in DOMAIN inflight : inflight[r].op = "register" /\ inflight[r].id = h

\* C32: a registration whose later save fails removes what it had already
\* written: every stored tenant that no registration is still working on
\* has its administrator and its verification record.
C32_NoTenantWithoutAdministrator ==
    \A h \in DOMAIN hospitals :
        ~InProgress(h) =>
            /\ AdminsOf(h) # {}
            /\ \E v \in DOMAIN verifications : verifications[v].metadata.hospitalId = h

\* a registration was answered 500 and its tenant is stored without an administrator
C32_Reached ==
    /\ last.op = "register" /\ last.kind = "Unexpected"
    /\ \E h \in DOMAIN hospitals :
          /\ hospitals[h].email = last.arg.hospitalData.email
          /\ AdminsOf(h) = {}

====
